---- MODULE Spec2Model ----
(***************************************************************************)
(* Model of the conversation orchestration core of vibe-chat-be:           *)
(* ChatAgentService (src/src/services/chatAgent.ts) and the streaming      *)
(* handler of ChatController (src/src/controllers/chatController.ts).      *)
(*                                                                         *)
(* Text is modelled as a sequence of tokens: a token is one character      *)
(* (" ", "a", ...) or one fixed phrase of the program.  Concatenation,     *)
(* trim() and slice() work on these sequences as they do on JS strings.    *)
(***************************************************************************)
EXTENDS Naturals, Integers, Sequences, FiniteSets, TLC

VARIABLES
    sessionMemories,  \* ChatAgentService.sessionMemories: memory key -> turns
    tools,            \* ChatAgentService.tools.length
    turnLog,          \* history variable: turns appended per session id since its last clear
    nSaves,           \* history variable: number of saveToMemory calls that stored a pair
    reqs              \* the requests: position, locals and outputs of each call

vars == <<sessionMemories, tools, turnLog, nSaves, reqs>>

----------------------------------------------------------------------------
(* Bounds of the model *)

MaxSaves == 12          \* saveToMemory calls explored by SpecStore

NumRequests == 2        \* processMessage calls explored by SpecProcess

NumStreams == 1         \* streaming requests explored by SpecStream

MaxChunks == 1          \* chunks a backend stream delivers in SpecStream

MaxSnapshots == 3       \* snapshots an agent stream delivers in SpecReconciler

----------------------------------------------------------------------------
(* Program constants *)

MAX_HISTORY_LENGTH == 20

ToolsRegistered == 3

----------------------------------------------------------------------------
(* Text *)

EmptyText == <<>>

Hi == <<"h", "i">>

Play == <<"p", "l", "a", "y">>

Ok == <<"o", "k">>

RECURSIVE TrimStart(_)
TrimStart(s) ==
    IF s = <<>> THEN s
    ELSE IF Head(s) = " " THEN TrimStart(Tail(s)) ELSE s

RECURSIVE TrimEnd(_)
TrimEnd(s) ==
    IF s = <<>> THEN s
    ELSE IF s[Len(s)] = " " THEN TrimEnd(SubSeq(s, 1, Len(s) - 1)) ELSE s

Trim(s) == TrimEnd(TrimStart(s))

\* Array.prototype.slice(-n) / String.prototype.slice(-n), n > 0
SliceLast(s, n) ==
    IF Len(s) <= n THEN s ELSE SubSeq(s, Len(s) - n + 1, Len(s))

\* String.prototype.slice(n), n >= 0
SliceFrom(s, n) == SubSeq(s, n + 1, Len(s))

----------------------------------------------------------------------------
(* Session Memory Store *)

NoSession == ""

SessionIds == {NoSession, "s1", "s2"}

\* mutant: every session id maps to one key
getMemoryKey_shared(sessionId) == "session_"

getMemoryKey(sessionId) == "session_" \o sessionId

ConversationMessage(role, content) == [role |-> role, content |-> content]

\* get(sessionId) of the spec: what a reader of the store sees for the id
HistoryOf(mem, sessionId) ==
    IF getMemoryKey(sessionId) \in DOMAIN mem THEN mem[getMemoryKey(sessionId)] ELSE <<>>

History(sessionId) == HistoryOf(sessionMemories, sessionId)

getSessionCount == Cardinality(DOMAIN sessionMemories)

\* mutant: a load starts the session over
getOrCreateMemory_fresh(mem, sessionId) ==
    IF sessionId = NoSession THEN mem
    ELSE (getMemoryKey(sessionId) :> <<>>) @@ mem

\* mutant: the load creates an entry for the empty session id too
getOrCreateMemory_anonymous(mem, sessionId) ==
    IF getMemoryKey(sessionId) \notin DOMAIN mem
    THEN (getMemoryKey(sessionId) :> <<>>) @@ mem
    ELSE mem

\* The store after getOrCreateMemory(sessionId)
getOrCreateMemory(mem, sessionId) ==
    IF sessionId = NoSession THEN mem
    ELSE IF getMemoryKey(sessionId) \notin DOMAIN mem
         THEN (getMemoryKey(sessionId) :> <<>>) @@ mem
         ELSE mem

\* mutant: a call is handed the turns of every tracked session
LoadedHistory_everySession(mem, sessionId) ==
    IF sessionId = NoSession THEN <<>>
    ELSE HistoryOf(mem, "s1") \o HistoryOf(mem, "s2")

\* The list getOrCreateMemory(sessionId) returns to its caller
LoadedHistory(mem, sessionId) ==
    IF sessionId = NoSession THEN <<>>
    ELSE getOrCreateMemory(mem, sessionId)[getMemoryKey(sessionId)]

\* mutant: the trim keeps the oldest turns instead of the newest
TrimmedHistory_keepOldest(messages) ==
    IF Len(messages) > MAX_HISTORY_LENGTH
    THEN SubSeq(messages, 1, MAX_HISTORY_LENGTH)
    ELSE messages

\* mutant: the trim keeps one turn fewer than the cap, splitting a pair
TrimmedHistory_splitsPair(messages) ==
    IF Len(messages) > MAX_HISTORY_LENGTH
    THEN SliceLast(messages, MAX_HISTORY_LENGTH - 1)
    ELSE messages

\* The list saveToMemory stores: both pushes, then the trim
TrimmedHistory(messages) ==
    IF Len(messages) > MAX_HISTORY_LENGTH
    THEN SliceLast(messages, MAX_HISTORY_LENGTH)
    ELSE messages

\* mutant: the pair is stored under the key of the empty session id too
saveToMemory_anonymous(mem, sessionId, userMessage, assistantMessage) ==
    LET memoryKey == getMemoryKey(sessionId)
        messages  == IF memoryKey \in DOMAIN mem THEN mem[memoryKey] ELSE <<>>
        pushed    == messages \o <<ConversationMessage("user", userMessage),
                                   ConversationMessage("assistant", assistantMessage)>>
    IN  (memoryKey :> TrimmedHistory(pushed)) @@ mem

\* The store after saveToMemory(sessionId, userMessage, assistantMessage)
saveToMemory(mem, sessionId, userMessage, assistantMessage) ==
    IF sessionId = NoSession THEN mem
    ELSE LET memoryKey == getMemoryKey(sessionId)
             messages  == IF memoryKey \in DOMAIN mem THEN mem[memoryKey] ELSE <<>>
             pushed    == messages \o <<ConversationMessage("user", userMessage),
                                        ConversationMessage("assistant", assistantMessage)>>
         IN  (memoryKey :> TrimmedHistory(pushed)) @@ mem

\* the k-th exchange stored on a session
Exchange(k) ==
    <<ConversationMessage("user", <<"q", ToString(k)>>),
      ConversationMessage("assistant", <<"r", ToString(k)>>)>>

\* the history after exchanges 1..k, as saveToMemory leaves it
RECURSIVE StoredHistory(_)
StoredHistory(k) ==
    IF k = 0 THEN <<>> ELSE TrimmedHistory(StoredHistory(k - 1) \o Exchange(k))

\* history variables updated by a saveToMemory call
LogSave(sessionId, userMessage, assistantMessage) ==
    IF sessionId = NoSession
    THEN UNCHANGED <<turnLog, nSaves>>
    ELSE /\ turnLog' = [turnLog EXCEPT ![sessionId] =
                           @ \o <<ConversationMessage("user", userMessage),
                                  ConversationMessage("assistant", assistantMessage)>>]
         /\ nSaves' = nSaves + 1

\* clearSession(sessionId): Map.delete, returns whether the key was present
clearSessionResult(sessionId) == ("session_" \o sessionId) \in DOMAIN sessionMemories

ClearSession(sessionId) ==
    /\ sessionMemories' = [k \in DOMAIN sessionMemories \ {"session_" \o sessionId}
                              |-> sessionMemories[k]]
    /\ turnLog' = IF sessionId \in DOMAIN turnLog
                  THEN [turnLog EXCEPT ![sessionId] = <<>>] ELSE turnLog
    /\ UNCHANGED <<tools, nSaves, reqs>>

ClearAllSessions ==
    /\ sessionMemories' = << >>
    /\ turnLog' = [s \in DOMAIN turnLog |-> <<>>]
    /\ UNCHANGED <<tools, nSaves, reqs>>

----------------------------------------------------------------------------
(* Personalities (src/src/services/personalities.ts) *)

PersonalityIds ==
    {"default", "roast", "hype", "conspiracy", "motivational", "sleepy", "funfact", "eli"}

NoPersonality == ""     \* request.personality absent (falsy)

\* mutant: the boundaries belong to the tier above
MoodLevel_exclusive(mood) ==
    IF mood < 30 THEN "low" ELSE IF mood < 70 THEN "medium" ELSE "high"

MoodLevel(mood) ==
    IF mood <= 30 THEN "low" ELSE IF mood <= 70 THEN "medium" ELSE "high"

\* the prompt text for a known personality; the wall-clock line is left out
getPersonalityPrompt(personality, mood) ==
    <<"You are a conversational AI with a ", personality, " personality. ",
      "Mood: ", MoodLevel(mood)>>

----------------------------------------------------------------------------
(* Messages exchanged with the model and agent backends *)

BaseMessage(type, toolCalls, content) ==
    [type |-> type, tool_calls |-> toolCalls, content |-> content]

SystemMessage(content) == BaseMessage("SystemMessage", FALSE, content)

HumanMessage(content) == BaseMessage("HumanMessage", FALSE, content)

AIMessage(content) == BaseMessage("AIMessage", FALSE, content)

ToolCallMessage(content) == BaseMessage("AIMessage", TRUE, content)

ToolMessage(content) == BaseMessage("ToolMessage", FALSE, content)

convertToLangChainMessages(history) ==
    [i \in 1..Len(history) |->
        IF history[i].role = "user" THEN HumanMessage(history[i].content)
        ELSE IF history[i].role = "assistant" THEN AIMessage(history[i].content)
        ELSE HumanMessage(history[i].content)]

buildMessageChain(request, history) ==
    LET systemPrompt == getPersonalityPrompt(request.personality, request.mood)
    IN  <<SystemMessage(systemPrompt)>>
            \o (IF Len(history) > 0 THEN convertToLangChainMessages(history) ELSE <<>>)
            \o <<HumanMessage(request.message)>>

\* mutant: streamMessage sends the prompt and the new message only
StreamMessageChain_noHistory(request, conversationHistory) ==
    <<SystemMessage(getPersonalityPrompt(request.personality, request.mood)),
      HumanMessage(request.message)>>

\* the assembly streamMessage does inline
StreamMessageChain(request, conversationHistory) ==
    LET systemPrompt == getPersonalityPrompt(request.personality, request.mood)
    IN  <<SystemMessage(systemPrompt)>>
            \o (IF Len(conversationHistory) > 0
                THEN convertToLangChainMessages(conversationHistory) ELSE <<>>)
            \o <<HumanMessage(request.message)>>

----------------------------------------------------------------------------
(* Fixed texts of the program and error values *)

Undefined == <<"undefined">>      \* a missing request.message

TroubleText == <<"I'm having trouble processing that. Could you try again?">>

MusicTroubleText == <<"I had trouble with that music request.">>

StreamErrorText == <<"Sorry, I encountered an error while processing your message.">>

NoError == <<>>

ErrEmptyMessage == <<"Message cannot be empty">>

ErrPersonalityRequired == <<"Personality mode is required">>

ErrTypeError == <<"Cannot read properties of undefined">>

BackendErrors == {<<"ETIMEDOUT">>, <<"429 rate limit">>}

----------------------------------------------------------------------------
(* Pure helpers of ChatAgentService *)

ToLowerCase(c) ==
    CASE c = "P" -> "p" [] c = "L" -> "l" [] c = "A" -> "a" [] c = "Y" -> "y"
      [] OTHER -> c

Includes(s, w) ==
    \E i \in 1..(Len(s) - Len(w) + 1) :
        \A j \in 1..Len(w) : ToLowerCase(s[i + j - 1]) = w[j]

MusicWords ==
    { <<"p","l","a","y">>, <<"m","u","s","i","c">>, <<"s","p","o","t","i","f","y">>,
      <<"s","o","n","g">>, <<"a","r","t","i","s","t">>, <<"a","l","b","u","m">>,
      <<"p","a","u","s","e">>, <<"r","e","s","u","m","e">>, <<"s","k","i","p">> }

isMusicRequest(message) == \E w \in MusicWords : Includes(message, w)

validateRequest(request) ==
    IF request.message = Undefined \/ Trim(request.message) = <<>>
    THEN ErrEmptyMessage
    ELSE IF request.personality = NoPersonality
         THEN ErrPersonalityRequired
         ELSE NoError

\* mutant: the scan runs from the front and returns the first usable text
RECURSIVE ScanForContent_fromFront(_, _)
ScanForContent_fromFront(messages, i) ==
    IF i = 0 THEN TroubleText
    ELSE IF Trim(messages[Len(messages) - i + 1].content) # <<>>
         THEN Trim(messages[Len(messages) - i + 1].content)
         ELSE ScanForContent_fromFront(messages, i - 1)

\* the loop of extractFinalResponse, from index i down; every content of the
\* model is text, so `typeof msg.content === 'string'` holds of each message
RECURSIVE ScanForContent(_, _)
ScanForContent(messages, i) ==
    IF i = 0 THEN TroubleText
    ELSE IF Trim(messages[i].content) # <<>>
         THEN Trim(messages[i].content)
         ELSE ScanForContent(messages, i - 1)

\* a backend result: the object extractFinalResponse is given
AgentResponse(messages) == [messages |-> messages]

\* an object without a `messages` property
NoMessagesResponse == [output |-> <<>>]

extractFinalResponse(response) ==
    IF "messages" \notin DOMAIN response THEN TroubleText
    ELSE IF response.messages = <<>> THEN TroubleText
    ELSE ScanForContent(response.messages, Len(response.messages))

\* tokens that are not a run of word characters
NonWordTokens == {" ", "=", ">", "<", "<function"}

RECURSIVE SkipSpaces(_, _)
SkipSpaces(s, i) ==
    IF i <= Len(s) /\ s[i] = " " THEN SkipSpaces(s, i + 1) ELSE i

\* /function\s*=\s*[\w_]+/ matching from the token at i
MatchesFunctionAssignment(s, i) ==
    /\ s[i] \in {"function", "<function"}
    /\ LET e == SkipSpaces(s, i + 1)
       IN  /\ e <= Len(s)
           /\ s[e] = "="
           /\ LET w == SkipSpaces(s, e + 1)
              IN  w <= Len(s) /\ s[w] \notin NonWordTokens

hasMalformedFunctionCall(response) ==
    \/ \E i \in 1..Len(response) : response[i] = "<function"
    \/ \E i \in 1..Len(response) : MatchesFunctionAssignment(response, i)

\* what handleMalformedFunctionCall returns for a request that is not about music
MalformedRecoveryText ==
    <<"I encountered an issue processing your request. Please try rephrasing it.">>

DEFAULT_CONFIDENCE == 850       \* 0.85, in thousandths

ERROR_CONFIDENCE == 500         \* 0.5, in thousandths

\* mutant: the random part of the confidence reaches past 0.15
RandomDraws_wide == {0, 151}

RandomDraws == {0, 149}         \* Math.random() * 0.15, in thousandths

NoResult == [kind |-> "none", message |-> <<>>, personality |-> "", confidence |-> 0]

\* the text handleProcessingError builds around error.message
ErrorResponseText(errorMessage) ==
    <<"I encountered an issue: ">> \o errorMessage
        \o <<". Please try rephrasing your request.">>

\* the value of handleProcessingError, or the exception it raises itself
handleProcessingError(errorMessage, request) ==
    IF request.message = Undefined
    THEN [kind |-> "exception", message |-> ErrTypeError,
          personality |-> request.personality, confidence |-> 0]
    ELSE IF isMusicRequest(request.message)
         THEN [kind |-> "error", message |-> MusicTroubleText,
               personality |-> request.personality, confidence |-> ERROR_CONFIDENCE]
         ELSE [kind |-> "error",
               message |-> ErrorResponseText(errorMessage),
               personality |-> request.personality, confidence |-> ERROR_CONFIDENCE]

----------------------------------------------------------------------------
(* Requests *)

MaxOf(a, b) == IF a >= b THEN a ELSE b

ReqIds == 1..MaxOf(NumRequests, NumStreams)

NoRequest == [message |-> <<>>, personality |-> "", mood |-> 0]

IdleRequest ==
    [ pc          |-> "idle",
      op          |-> "none",       \* "process" | "stream"
      http        |-> FALSE,        \* a stream consumed by ChatController
      request     |-> NoRequest,
      sessionId   |-> NoSession,    \* the session id, once the call has used it
      messages    |-> <<>>,         \* the assembled message chain
      method      |-> "none",
      finalMessage |-> <<>>,
      result      |-> NoResult,
      agentCalls  |-> <<>>,         \* history: argument of each agent.invoke / agent.stream
      directCalls |-> <<>>,         \* history: argument of each model.invoke / model.stream
      directOutput |-> <<>>,        \* history: what model.invoke returned
      fullResponse |-> <<>>,        \* streamMessage: accumulated text
      lastChunkContent |-> <<>>,    \* streamMessage: previously seen candidate
      chunkContent |-> <<>>,        \* streamMessage: candidate of the current snapshot
      pending     |-> <<>>,         \* the value yielded and not yet taken by the consumer
      caught      |-> FALSE,        \* streamMessage is in its catch block
      events      |-> <<>>,         \* the events the controller has written
      yielded     |-> <<>>,         \* history: the values the consumer has taken
      candidates  |-> <<>>,         \* history: the candidate of each snapshot
      nChunks     |-> 0,            \* history: chunks the backend stream delivered
      backendThrew |-> FALSE,       \* history: the backend stream threw
      loadedLen   |-> 0,            \* history: Len(turnLog[sessionId]) when history was loaded
      commitLen   |-> 0,            \* history: Len(turnLog[sessionId]) right after the commit
      clearedUnder |-> "none" ]     \* history (deleteSession): where the chat request on the
                                    \* removed session stood when it was removed

Requests ==
    { [message |-> Hi,        personality |-> "default", mood |-> 50],
      [message |-> Play,      personality |-> "default", mood |-> 50],
      [message |-> <<" ">>,   personality |-> "default", mood |-> 50],
      [message |-> <<>>,      personality |-> "default", mood |-> 50],
      [message |-> Undefined, personality |-> "default", mood |-> 50],
      [message |-> Hi,        personality |-> "bogus",   mood |-> 50],
      [message |-> Hi,        personality |-> NoPersonality, mood |-> 50] }

StreamRequests ==
    { [message |-> Hi,        personality |-> "default", mood |-> 50],
      [message |-> <<" ">>,   personality |-> "default", mood |-> 50],
      [message |-> Undefined, personality |-> "default", mood |-> 50],
      [message |-> Hi,        personality |-> "bogus",   mood |-> 50] }

AgentOutputs ==
    { <<>>,
      <<AIMessage(<<" ">>)>>,
      <<ToolCallMessage(<<>>), ToolMessage(<<"t">>), AIMessage(<<"o", "k", " ">>)>> }

ModelOutputs == { AIMessage(<<" ", "n", "o">>), AIMessage(<<>>) }

ModelChunks == { <<>>, <<"a">>, <<" ", "b">> }

AgentSnapshots ==
    { <<ToolCallMessage(<<"x">>), ToolMessage(<<"t">>)>>,
      <<AIMessage(<<"a">>)>>,
      <<AIMessage(<<"a", "b", " ">>)>> }

\* request slots are taken in order, and session ids in the order "s1", "s2":
\* slots and ids are interchangeable, so no behaviour is lost
CanStart(r, sessionId) ==
    /\ reqs[r].pc = "idle"
    /\ \A q \in ReqIds : q < r => reqs[q].pc # "idle"
    /\ sessionId = "s2" => \E q \in ReqIds : reqs[q].sessionId = "s1"

LoadedLen(sessionId) == IF sessionId = NoSession THEN 0 ELSE Len(turnLog[sessionId])

\* mutant: the agent path is taken whatever the number of tools
NoTools_never == FALSE

\* the path selection of processMessage and streamMessage: this.tools.length === 0
NoTools == tools = 0

\* processMessage up to its first await
BeginProcess(r, request, sessionId) ==
    LET verr    == validateRequest(request)
        mem     == getOrCreateMemory(sessionMemories, sessionId)
        history == LoadedHistory(sessionMemories, sessionId)
        base    == [IdleRequest EXCEPT !.op = "process",
                                       !.request = request, !.sessionId = sessionId,
                                       !.loadedLen = LoadedLen(sessionId)]
        chain   == buildMessageChain(request, history)
    IN  /\ IF verr # NoError
           THEN /\ reqs' = [reqs EXCEPT ![r] =
                      [base EXCEPT !.pc = "done", !.sessionId = NoSession,
                                   !.loadedLen = 0,
                                   !.result = handleProcessingError(verr, request)]]
                /\ UNCHANGED sessionMemories
           ELSE IF request.personality \notin PersonalityIds
           THEN /\ reqs' = [reqs EXCEPT ![r] =
                      [base EXCEPT !.pc = "done",
                                   !.result = handleProcessingError(ErrTypeError, request)]]
                /\ sessionMemories' = mem
           ELSE IF NoTools
           THEN /\ reqs' = [reqs EXCEPT ![r] =
                      [base EXCEPT !.pc = "dispatch_direct", !.messages = chain,
                                   !.method = "direct_model",
                                   !.directCalls = <<chain>>]]
                /\ sessionMemories' = mem
           ELSE /\ reqs' = [reqs EXCEPT ![r] =
                      [base EXCEPT !.pc = "dispatch_agent", !.messages = chain,
                                   !.method = "agent_invoke",
                                   !.agentCalls = <<chain>>]]
                /\ sessionMemories' = mem
        /\ UNCHANGED <<tools, turnLog, nSaves>>

\* a direct call of ChatAgentService.processMessage
ProcessMessage(r, request, sessionId) ==
    /\ CanStart(r, sessionId)
    /\ BeginProcess(r, request, sessionId)

\* agent.invoke resolves: processWithAgent returns, extractFinalResponse runs
AgentInvokeReturns(r, output) ==
    /\ reqs[r].pc = "dispatch_agent"
    /\ reqs' = [reqs EXCEPT ![r].pc = "extracted",
                            ![r].finalMessage = extractFinalResponse(AgentResponse(output))]
    /\ UNCHANGED <<sessionMemories, tools, turnLog, nSaves>>

\* mutant: the fallback call loses the system prompt
FallbackMessages_noSystem(r) == Tail(reqs[r].messages)

\* the model.invoke call made by the catch block of processWithAgent
FallbackMessages(r) == reqs[r].messages

\* agent.invoke rejects: processWithAgent falls back to model.invoke
AgentInvokeThrows(r) ==
    /\ reqs[r].pc = "dispatch_agent"
    /\ reqs' = [reqs EXCEPT ![r].pc = "dispatch_fallback",
                            ![r].method = "fallback",
                            ![r].directCalls = Append(@, FallbackMessages(r))]
    /\ UNCHANGED <<sessionMemories, tools, turnLog, nSaves>>

\* model.invoke resolves (direct path or fallback)
DirectInvokeReturns(r, output) ==
    /\ reqs[r].pc \in {"dispatch_direct", "dispatch_fallback"}
    /\ reqs' = [reqs EXCEPT ![r].pc = "extracted",
                            ![r].directOutput = <<output>>,
                            ![r].finalMessage = extractFinalResponse(AgentResponse(<<output>>))]
    /\ UNCHANGED <<sessionMemories, tools, turnLog, nSaves>>

\* mutant: the catch block of processMessage stores the apology as a turn
DirectInvokeThrows_commits(r, errorMessage) ==
    /\ reqs[r].pc \in {"dispatch_direct", "dispatch_fallback"}
    /\ LET result == handleProcessingError(errorMessage, reqs[r].request)
       IN  /\ reqs' = [reqs EXCEPT ![r].pc = "done", ![r].result = result]
           /\ sessionMemories' = saveToMemory(sessionMemories, reqs[r].sessionId,
                                              reqs[r].request.message, result.message)
           /\ LogSave(reqs[r].sessionId, reqs[r].request.message, result.message)
    /\ UNCHANGED tools

\* model.invoke rejects: the catch block of processMessage
DirectInvokeThrows(r, errorMessage) ==
    /\ reqs[r].pc \in {"dispatch_direct", "dispatch_fallback"}
    /\ reqs' = [reqs EXCEPT ![r].pc = "done",
                            ![r].result = handleProcessingError(errorMessage, reqs[r].request)]
    /\ UNCHANGED <<sessionMemories, tools, turnLog, nSaves>>

\* mutant: the commit appends to the history as it was when the call loaded it
CommitBase_loaded(r) ==
    IF reqs[r].sessionId = NoSession THEN sessionMemories
    ELSE (getMemoryKey(reqs[r].sessionId) :>
              SubSeq(turnLog[reqs[r].sessionId], 1, reqs[r].loadedLen)) @@ sessionMemories

\* the history the commit of a request appends to: the store's current one
CommitBase(r) == sessionMemories

\* processMessage after `await extractFinalResponse`: commit and return
CommitTurn(r, draw) ==
    /\ reqs[r].pc = "extracted"
    /\ sessionMemories' = saveToMemory(CommitBase(r), reqs[r].sessionId,
                                       reqs[r].request.message, reqs[r].finalMessage)
    /\ LogSave(reqs[r].sessionId, reqs[r].request.message, reqs[r].finalMessage)
    /\ reqs' = [reqs EXCEPT ![r].pc = "done",
                            ![r].commitLen = LoadedLen(reqs[r].sessionId)
                                + (IF reqs[r].sessionId = NoSession THEN 0 ELSE 2),
                            ![r].result = [kind |-> "success",
                                           message |-> reqs[r].finalMessage,
                                           personality |-> reqs[r].request.personality,
                                           confidence |-> DEFAULT_CONFIDENCE + draw]]
    /\ UNCHANGED tools

----------------------------------------------------------------------------
(* Streaming: ChatAgentService.streamMessage and its consumer *)

StreamEvent(type, content, personality, confidence) ==
    [type |-> type, content |-> content, personality |-> personality,
     confidence |-> confidence]

StartEvent(request) == StreamEvent("start", <<>>, request.personality, 0)

ChunkEvent(content) == StreamEvent("chunk", content, "", 0)

EndEvent(request, confidence) == StreamEvent("end", <<>>, request.personality, confidence)

ErrorEvent == StreamEvent("error", StreamErrorText, "", 0)

\* the candidate of a snapshot: last AIMessage without tool_calls and with text
RECURSIVE ScanForAnswer(_, _)
ScanForAnswer(messages, i) ==
    IF i = 0 THEN <<>>
    ELSE IF /\ messages[i].type = "AIMessage"
            /\ ~messages[i].tool_calls
            /\ Trim(messages[i].content) # <<>>
         THEN Trim(messages[i].content)
         ELSE ScanForAnswer(messages, i - 1)

AgentCandidate(messages) == ScanForAnswer(messages, Len(messages))

\* mutant: the whole candidate is yielded instead of its new suffix
NewContent_whole(lastChunkContent, chunkContent) ==
    IF chunkContent # <<>> /\ chunkContent # lastChunkContent
    THEN chunkContent
    ELSE <<>>

\* the fragment the agent branch yields for a candidate (empty: nothing is yielded)
NewContent(lastChunkContent, chunkContent) ==
    IF chunkContent # <<>> /\ chunkContent # lastChunkContent
    THEN SliceFrom(chunkContent, Len(lastChunkContent))
    ELSE <<>>

\* the generator's catch block: the error text is yielded as a fragment
CatchAndYield(req) ==
    [req EXCEPT !.pc = "yielded", !.pending = StreamErrorText, !.caught = TRUE]

\* the controller up to the first await of streamMessage (http) or a direct
\* consumer's first next()
BeginStream(r, request, sessionId, http) ==
    LET mem     == getOrCreateMemory(sessionMemories, sessionId)
        history == LoadedHistory(sessionMemories, sessionId)
        base    == [IdleRequest EXCEPT !.op = "stream", !.http = http,
                                       !.request = request, !.sessionId = sessionId,
                                       !.loadedLen = LoadedLen(sessionId),
                                       !.events = IF http THEN <<StartEvent(request)>>
                                                  ELSE <<>>]
        chain   == StreamMessageChain(request, history)
    IN  /\ sessionMemories' = mem
        /\ IF request.message = Undefined \/ request.personality \notin PersonalityIds
           THEN reqs' = [reqs EXCEPT ![r] = CatchAndYield(base)]
           ELSE IF NoTools
           THEN reqs' = [reqs EXCEPT ![r] =
                      [base EXCEPT !.pc = "open_stream", !.messages = chain,
                                   !.method = "direct_model",
                                   !.directCalls = <<chain>>]]
           ELSE reqs' = [reqs EXCEPT ![r] =
                      [base EXCEPT !.pc = "open_stream", !.messages = chain,
                                   !.method = "agent_stream",
                                   !.agentCalls = <<chain>>]]
        /\ UNCHANGED <<tools, turnLog, nSaves>>

\* a direct consumer draining ChatAgentService.streamMessage
StreamMessage(r, request, sessionId) ==
    /\ CanStart(r, sessionId)
    /\ BeginStream(r, request, sessionId, FALSE)

\* model.stream / agent.stream resolves with the stream
OpenStreamReturns(r) ==
    /\ reqs[r].pc = "open_stream"
    /\ reqs' = [reqs EXCEPT ![r].pc = "await_chunk"]
    /\ UNCHANGED <<sessionMemories, tools, turnLog, nSaves>>

\* model.stream / agent.stream rejects
OpenStreamThrows(r) ==
    /\ reqs[r].pc = "open_stream"
    /\ reqs' = [reqs EXCEPT ![r] = [CatchAndYield(@) EXCEPT !.backendThrew = TRUE]]
    /\ UNCHANGED <<sessionMemories, tools, turnLog, nSaves>>

\* the model stream delivers a chunk (direct branch of streamMessage)
DirectStreamChunk(r, content) ==
    /\ reqs[r].pc = "await_chunk"
    /\ reqs[r].method = "direct_model"
    /\ reqs' = [reqs EXCEPT ![r] =
          IF content # <<>>
          THEN [@ EXCEPT !.pc = "yielded", !.pending = content,
                         !.fullResponse = @ \o content,
                         !.nChunks = @ + 1]
          ELSE [@ EXCEPT !.nChunks = @ + 1]]
    /\ UNCHANGED <<sessionMemories, tools, turnLog, nSaves>>

\* mutant: the whole candidate, not the yielded suffix, is accumulated
AgentStreamChunk_accumulatesCandidate(r, messages) ==
    /\ reqs[r].pc = "await_chunk"
    /\ reqs[r].method = "agent_stream"
    /\ LET chunkContent == AgentCandidate(messages)
           newContent   == NewContent(reqs[r].lastChunkContent, chunkContent)
       IN  reqs' = [reqs EXCEPT ![r] =
              IF newContent # <<>>
              THEN [@ EXCEPT !.pc = "yielded", !.pending = newContent,
                             !.chunkContent = chunkContent,
                             !.fullResponse = @ \o chunkContent,
                             !.candidates = Append(@, chunkContent),
                             !.nChunks = @ + 1]
              ELSE [@ EXCEPT !.candidates = Append(@, chunkContent),
                             !.nChunks = @ + 1]]
    /\ UNCHANGED <<sessionMemories, tools, turnLog, nSaves>>

\* mutant: a candidate that yields nothing new still replaces the cursor
AgentStreamChunk_tracksRevision(r, messages) ==
    /\ reqs[r].pc = "await_chunk"
    /\ reqs[r].method = "agent_stream"
    /\ LET chunkContent == AgentCandidate(messages)
           newContent   == NewContent(reqs[r].lastChunkContent, chunkContent)
       IN  reqs' = [reqs EXCEPT ![r] =
              IF newContent # <<>>
              THEN [@ EXCEPT !.pc = "yielded", !.pending = newContent,
                             !.chunkContent = chunkContent,
                             !.fullResponse = @ \o newContent,
                             !.candidates = Append(@, chunkContent),
                             !.nChunks = @ + 1]
              ELSE [@ EXCEPT !.candidates = Append(@, chunkContent),
                             !.lastChunkContent =
                                 IF chunkContent # <<>> THEN chunkContent ELSE @,
                             !.nChunks = @ + 1]]
    /\ UNCHANGED <<sessionMemories, tools, turnLog, nSaves>>

\* the agent stream delivers a snapshot (agent branch of streamMessage)
AgentStreamChunk(r, messages) ==
    /\ reqs[r].pc = "await_chunk"
    /\ reqs[r].method = "agent_stream"
    /\ LET chunkContent == AgentCandidate(messages)
           newContent   == NewContent(reqs[r].lastChunkContent, chunkContent)
       IN  reqs' = [reqs EXCEPT ![r] =
              IF newContent # <<>>
              THEN [@ EXCEPT !.pc = "yielded", !.pending = newContent,
                             !.chunkContent = chunkContent,
                             !.fullResponse = @ \o newContent,
                             !.candidates = Append(@, chunkContent),
                             !.nChunks = @ + 1]
              ELSE [@ EXCEPT !.candidates = Append(@, chunkContent),
                             !.nChunks = @ + 1]]
    /\ UNCHANGED <<sessionMemories, tools, turnLog, nSaves>>

\* mutant: the catch block stores the text accumulated so far
StreamThrows_commitsPartial(r) ==
    /\ reqs[r].pc = "await_chunk"
    /\ reqs' = [reqs EXCEPT ![r] = [CatchAndYield(@) EXCEPT !.backendThrew = TRUE]]
    /\ sessionMemories' = saveToMemory(sessionMemories, reqs[r].sessionId,
                                       reqs[r].request.message, reqs[r].fullResponse)
    /\ LogSave(reqs[r].sessionId, reqs[r].request.message, reqs[r].fullResponse)
    /\ UNCHANGED tools

\* the backend stream throws while the generator awaits the next chunk
StreamThrows(r) ==
    /\ reqs[r].pc = "await_chunk"
    /\ reqs' = [reqs EXCEPT ![r] = [CatchAndYield(@) EXCEPT !.backendThrew = TRUE]]
    /\ UNCHANGED <<sessionMemories, tools, turnLog, nSaves>>

\* whether streamMessage commits on leaving its loop
StreamCommits(req) == req.fullResponse # <<>>

\* mutant: the generator returns without storing the turn
StreamEnds_returnsUncommitted(r) ==
    /\ reqs[r].pc = "await_chunk"
    /\ reqs' = [reqs EXCEPT ![r].pc = "gen_done"]
    /\ UNCHANGED <<sessionMemories, tools, turnLog, nSaves>>

\* the backend stream ends: streamMessage commits and returns
StreamEnds(r) ==
    /\ reqs[r].pc = "await_chunk"
    /\ IF StreamCommits(reqs[r])
       THEN /\ sessionMemories' = saveToMemory(sessionMemories, reqs[r].sessionId,
                                      reqs[r].request.message, reqs[r].fullResponse)
            /\ LogSave(reqs[r].sessionId, reqs[r].request.message, reqs[r].fullResponse)
            /\ reqs' = [reqs EXCEPT ![r].pc = "gen_done",
                                    ![r].commitLen = LoadedLen(reqs[r].sessionId)
                                        + (IF reqs[r].sessionId = NoSession THEN 0 ELSE 2)]
       ELSE /\ reqs' = [reqs EXCEPT ![r].pc = "gen_done"]
            /\ UNCHANGED <<sessionMemories, turnLog, nSaves>>
    /\ UNCHANGED tools

\* what the controller writes for a value yielded by streamMessage
WriteYielded(req) == Append(req.events, ChunkEvent(req.pending))

\* the consumer takes the yielded fragment and calls next(): the generator
\* resumes after its yield
ConsumerNext(r) ==
    /\ reqs[r].pc = "yielded"
    /\ LET taken == [reqs[r] EXCEPT !.yielded = Append(@, reqs[r].pending),
                                    !.events = IF reqs[r].http THEN WriteYielded(reqs[r])
                                               ELSE @,
                                    !.pending = <<>>]
       IN  reqs' = [reqs EXCEPT ![r] =
              IF taken.caught
              THEN [taken EXCEPT !.pc = "gen_done"]
              ELSE IF taken.method = "agent_stream"
              THEN [taken EXCEPT !.pc = "await_chunk",
                                 !.lastChunkContent = taken.chunkContent]
              ELSE [taken EXCEPT !.pc = "await_chunk"]]
    /\ UNCHANGED <<sessionMemories, tools, turnLog, nSaves>>

\* the terminal event the controller writes once the generator has returned
TerminalEvent(req, confidence) == EndEvent(req.request, confidence)

\* mutant: after a backend error the controller writes `error` and then `end`
StreamFinish_errorThenEnd(r, draw) ==
    /\ reqs[r].pc = "gen_done"
    /\ reqs' = [reqs EXCEPT ![r].pc = "done",
                            ![r].events =
                                IF ~reqs[r].http THEN @
                                ELSE IF reqs[r].caught
                                THEN @ \o <<ErrorEvent,
                                            EndEvent(reqs[r].request, DEFAULT_CONFIDENCE + draw)>>
                                ELSE Append(@, EndEvent(reqs[r].request,
                                                        DEFAULT_CONFIDENCE + draw)),
                            ![r].result = [kind |-> "streamed",
                                           message |-> reqs[r].fullResponse,
                                           personality |-> reqs[r].request.personality,
                                           confidence |-> 0]]
    /\ UNCHANGED <<sessionMemories, tools, turnLog, nSaves>>

\* the generator has returned: the consumer's loop ends; the controller
\* writes its terminal event and ends the response
StreamFinish(r, draw) ==
    /\ reqs[r].pc = "gen_done"
    /\ reqs' = [reqs EXCEPT ![r].pc = "done",
                            ![r].events =
                                IF reqs[r].http
                                THEN Append(@, TerminalEvent(reqs[r], DEFAULT_CONFIDENCE + draw))
                                ELSE @,
                            ![r].result = [kind |-> "streamed",
                                           message |-> reqs[r].fullResponse,
                                           personality |-> reqs[r].request.personality,
                                           confidence |-> 0]]
    /\ UNCHANGED <<sessionMemories, tools, turnLog, nSaves>>

----------------------------------------------------------------------------
(* ChatController.processChat *)

ErrMissingFields == <<"Missing required fields: message, personality, mood">>

ErrMoodRange == <<"Mood must be between 0 and 100">>

ErrInvalidPersonality == <<"Invalid personality mode">>

validateChatRequest(request) ==
    IF request.message = Undefined \/ request.message = <<>>
          \/ request.personality = NoPersonality
    THEN ErrMissingFields
    ELSE IF request.mood < 0 \/ request.mood > 100
    THEN ErrMoodRange
    ELSE IF request.personality \notin PersonalityIds
    THEN ErrInvalidPersonality
    ELSE NoError

ProcessChat(r, request, sessionId, wantsStream) ==
    /\ CanStart(r, sessionId)
    /\ IF validateChatRequest(request) # NoError
       THEN /\ reqs' = [reqs EXCEPT ![r] =
                  [IdleRequest EXCEPT !.pc = "done", !.op = "rejected", !.http = TRUE,
                                      !.request = request,
                                      !.result = [kind |-> "http400",
                                                  message |-> validateChatRequest(request),
                                                  personality |-> request.personality,
                                                  confidence |-> 0]]]
            /\ UNCHANGED <<sessionMemories, tools, turnLog, nSaves>>
       ELSE IF wantsStream
       THEN BeginStream(r, request, sessionId, TRUE)
       ELSE BeginProcess(r, request, sessionId)

----------------------------------------------------------------------------
(* SpecStore: the store driven directly by its operations *)

StoreUserTexts == {Hi, Play}

StoreAssistantTexts == {Ok}

InitStore ==
    /\ sessionMemories = << >>
    /\ tools = ToolsRegistered
    /\ turnLog = [s \in SessionIds \ {NoSession} |-> <<>>]
    /\ nSaves = 0
    /\ reqs = [r \in ReqIds |-> IdleRequest]

StoreLoad(sessionId) ==
    /\ sessionMemories' = getOrCreateMemory(sessionMemories, sessionId)
    /\ sessionMemories' # sessionMemories
    /\ UNCHANGED <<tools, turnLog, nSaves, reqs>>

StoreSave(sessionId, userMessage, assistantMessage) ==
    /\ nSaves < MaxSaves
    /\ sessionMemories' = saveToMemory(sessionMemories, sessionId, userMessage, assistantMessage)
    /\ LogSave(sessionId, userMessage, assistantMessage)
    /\ UNCHANGED <<tools, reqs>>

StoreClear(sessionId) ==
    /\ clearSessionResult(sessionId)
    /\ ClearSession(sessionId)

NextStore ==
    \/ \E s \in SessionIds : StoreLoad(s)
    \/ \E s \in SessionIds, u \in StoreUserTexts, a \in StoreAssistantTexts : StoreSave(s, u, a)
    \/ \E s \in SessionIds : StoreClear(s)

SpecStore == InitStore /\ [][NextStore]_vars

----------------------------------------------------------------------------
(* SpecProcess: processMessage calls, interleaved at their awaits *)

Init ==
    /\ sessionMemories = << >>
    /\ tools \in {0, ToolsRegistered}
    /\ turnLog = [s \in SessionIds \ {NoSession} |-> <<>>]
    /\ nSaves = 0
    /\ reqs = [r \in ReqIds |-> IdleRequest]

ProcessIds == 1..NumRequests

NextProcess ==
    \/ \E r \in ProcessIds, q \in Requests, s \in SessionIds : ProcessMessage(r, q, s)
    \/ \E r \in ProcessIds, q \in Requests, s \in SessionIds : ProcessChat(r, q, s, FALSE)
    \/ \E r \in ProcessIds, o \in AgentOutputs : AgentInvokeReturns(r, o)
    \/ \E r \in ProcessIds : AgentInvokeThrows(r)
    \/ \E r \in ProcessIds, o \in ModelOutputs : DirectInvokeReturns(r, o)
    \/ \E r \in ProcessIds, e \in BackendErrors : DirectInvokeThrows(r, e)
    \/ \E r \in ProcessIds, d \in RandomDraws : CommitTurn(r, d)

SpecProcess == Init /\ [][NextProcess]_vars

\* model.invoke settles, one way or the other
DirectSettles(r) ==
    \/ \E o \in ModelOutputs : DirectInvokeReturns(r, o)
    \/ \E e \in BackendErrors : DirectInvokeThrows(r, e)

\* SpecProcess with its scheduling: the continuation after an await runs once
\* the awaited promise has settled, and the direct model call settles; nothing
\* is assumed of the agent, which processWithAgent awaits without a ceiling
SpecProcessLive ==
    /\ SpecProcess
    /\ \A r \in ProcessIds : WF_vars(\E d \in RandomDraws : CommitTurn(r, d))
    /\ \A r \in ProcessIds : WF_vars(DirectSettles(r))

----------------------------------------------------------------------------
(* SpecStream: streaming requests, through the controller or consumed      *)
(* directly, interleaved at their awaits and yields                        *)

StreamIds == 1..NumStreams

NextStream ==
    \/ \E r \in StreamIds, q \in StreamRequests, s \in SessionIds : StreamMessage(r, q, s)
    \/ \E r \in StreamIds, q \in StreamRequests, s \in SessionIds : ProcessChat(r, q, s, TRUE)
    \/ \E r \in StreamIds : OpenStreamReturns(r)
    \/ \E r \in StreamIds : OpenStreamThrows(r)
    \/ \E r \in StreamIds, c \in ModelChunks :
           reqs[r].nChunks < MaxChunks /\ DirectStreamChunk(r, c)
    \/ \E r \in StreamIds, m \in AgentSnapshots :
           reqs[r].nChunks < MaxChunks /\ AgentStreamChunk(r, m)
    \/ \E r \in StreamIds : StreamThrows(r)
    \/ \E r \in StreamIds : StreamEnds(r)
    \/ \E r \in StreamIds : ConsumerNext(r)
    \/ \E r \in StreamIds, d \in RandomDraws : StreamFinish(r, d)

SpecStream == Init /\ [][NextStream]_vars

----------------------------------------------------------------------------
(* SpecReconciler: one agent-path stream fed scripted snapshot sequences *)

ReconcilerRequest == [message |-> Hi, personality |-> "default", mood |-> 50]

ReconcilerTexts ==
    UNION { [1..n -> {"a", "b"}] : n \in 0..3 } \cup { <<"a", " ">>, <<" ", "a", "b">> }

ReconcilerSnapshots ==
    { <<AIMessage(t)>> : t \in ReconcilerTexts }
        \cup { <<AIMessage(<<"b">>), ToolCallMessage(<<"a">>), ToolMessage(<<"a", "b">>)>>,
               <<ToolCallMessage(<<"a">>)>> }

InitReconciler ==
    /\ sessionMemories = << >>
    /\ tools = ToolsRegistered
    /\ turnLog = [s \in SessionIds \ {NoSession} |-> <<>>]
    /\ nSaves = 0
    /\ reqs = [r \in ReqIds |-> IdleRequest]

NextReconciler ==
    \/ StreamMessage(1, ReconcilerRequest, "s1")
    \/ OpenStreamReturns(1)
    \/ \E m \in ReconcilerSnapshots :
           reqs[1].nChunks < MaxSnapshots /\ AgentStreamChunk(1, m)
    \/ ConsumerNext(1)
    \/ StreamEnds(1)
    \/ \E d \in RandomDraws : StreamFinish(1, d)

SpecReconciler == InitReconciler /\ [][NextReconciler]_vars

----------------------------------------------------------------------------
(* SpecService: one chat request of any kind (processMessage or             *)
(* streamMessage, called directly or through ChatController) on a service   *)
(* that may already hold sessions, with one session-management call         *)
(* (SessionController.deleteSession or clearAllSessions) at any moment      *)

MaxDeliveries == 2      \* chunks a backend stream delivers in SpecService

\* request 1 is the chat request, request 2 the session-management call

\* mutant: clearSession drops every session
SessionsWithout_all(mem, sessionId) == << >>

\* the store after clearSession(sessionId)
SessionsWithout(mem, sessionId) ==
    [k \in DOMAIN mem \ {"session_" \o sessionId} |-> mem[k]]

ErrSessionNotFound == <<"Session not found">>

SessionDeleted == <<"Session deleted successfully">>

\* SessionController.deleteSession: 404 when clearSession returns false
DeleteSession(sessionId) ==
    /\ reqs[2].pc = "idle"
    /\ LET deleted == clearSessionResult(sessionId)
       IN  reqs' = [reqs EXCEPT ![2] =
              [IdleRequest EXCEPT !.pc = "done", !.op = "deleteSession", !.http = TRUE,
                                  !.sessionId = sessionId,
                                  !.clearedUnder =
                                      IF deleted /\ reqs[1].sessionId = sessionId
                                      THEN reqs[1].pc ELSE "none",
                                  !.result = [kind |-> IF deleted THEN "http200" ELSE "http404",
                                              message |-> IF deleted THEN SessionDeleted
                                                          ELSE ErrSessionNotFound,
                                              personality |-> "", confidence |-> 0]]]
    /\ sessionMemories' = SessionsWithout(sessionMemories, sessionId)
    /\ turnLog' = IF sessionId \in DOMAIN turnLog
                  THEN [turnLog EXCEPT ![sessionId] = <<>>] ELSE turnLog
    /\ UNCHANGED <<tools, nSaves>>

\* ChatAgentService.clearAllSessions, called on the service
ClearAll ==
    /\ reqs[2].pc = "idle"
    /\ reqs' = [reqs EXCEPT ![2] =
          [IdleRequest EXCEPT !.pc = "done", !.op = "clearAllSessions"]]
    /\ sessionMemories' = << >>
    /\ turnLog' = [s \in DOMAIN turnLog |-> <<>>]
    /\ UNCHANGED <<tools, nSaves>>

SessionIdGenerated == <<"Chat session ID generated successfully">>

\* SessionController.createSession: an id is generated, the store is not read
CreateSession ==
    /\ reqs[2].pc = "idle"
    /\ reqs' = [reqs EXCEPT ![2] =
          [IdleRequest EXCEPT !.pc = "done", !.op = "createSession", !.http = TRUE,
                              !.result = [kind |-> "http200",
                                          message |-> SessionIdGenerated,
                                          personality |-> "", confidence |-> 0]]]
    /\ UNCHANGED <<sessionMemories, tools, turnLog, nSaves>>

\* SessionController.getStats: answers getSessionCount()
GetStats ==
    /\ reqs[2].pc = "idle"
    /\ reqs' = [reqs EXCEPT ![2] =
          [IdleRequest EXCEPT !.pc = "done", !.op = "getStats", !.http = TRUE,
                              !.result = [kind |-> "http200", message |-> <<>>,
                                          personality |-> "", confidence |-> 0,
                                          totalSessions |-> getSessionCount]]]
    /\ UNCHANGED <<sessionMemories, tools, turnLog, nSaves>>

MalformedCall == <<"<function", "=", "spotify_control", ">">>

ServiceRequests ==
    Requests \cup { [message |-> Hi, personality |-> "default", mood |-> 150],
                    [message |-> Hi, personality |-> "default", mood |-> 0 - 1] }

ServiceAgentOutputs ==
    AgentOutputs \cup { <<ToolCallMessage(<<>>), AIMessage(MalformedCall)>> }

ServiceSnapshots == AgentSnapshots \cup { <<AIMessage(<<"b", "a", "b">>)>> }

\* one exchange stored earlier on "s1"
PriorTurns == <<ConversationMessage("user", Hi), ConversationMessage("assistant", Ok)>>

\* the service when the request arrives: fresh, or holding "s1" with one
\* exchange, or holding that and a loaded, still empty "s2", or holding "s1"
\* at the cap
InitService ==
    /\ tools \in {0, ToolsRegistered}
    /\ reqs = [r \in ReqIds |-> IdleRequest]
    /\ \/ /\ sessionMemories = << >>
          /\ turnLog = [s \in SessionIds \ {NoSession} |-> <<>>]
          /\ nSaves = 0
       \/ /\ sessionMemories = (getMemoryKey("s1") :> PriorTurns)
          /\ turnLog = [s \in SessionIds \ {NoSession} |->
                           IF s = "s1" THEN PriorTurns ELSE <<>>]
          /\ nSaves = 1
       \/ /\ sessionMemories = (getMemoryKey("s1") :> PriorTurns)
                                   @@ (getMemoryKey("s2") :> <<>>)
          /\ turnLog = [s \in SessionIds \ {NoSession} |->
                           IF s = "s1" THEN PriorTurns ELSE <<>>]
          /\ nSaves = 1
       \/ /\ sessionMemories =
                 (getMemoryKey("s1") :> StoredHistory(MAX_HISTORY_LENGTH \div 2))
          /\ turnLog = [s \in SessionIds \ {NoSession} |->
                           IF s = "s1" THEN StoredHistory(MAX_HISTORY_LENGTH \div 2)
                           ELSE <<>>]
          /\ nSaves = MAX_HISTORY_LENGTH \div 2

NextService ==
    \/ \E q \in ServiceRequests, s \in SessionIds : ProcessMessage(1, q, s)
    \/ \E q \in ServiceRequests, s \in SessionIds : ProcessChat(1, q, s, FALSE)
    \/ \E q \in ServiceRequests, s \in SessionIds : StreamMessage(1, q, s)
    \/ \E q \in ServiceRequests, s \in SessionIds : ProcessChat(1, q, s, TRUE)
    \/ \E o \in ServiceAgentOutputs : AgentInvokeReturns(1, o)
    \/ AgentInvokeThrows(1)
    \/ \E o \in ModelOutputs : DirectInvokeReturns(1, o)
    \/ \E e \in BackendErrors : DirectInvokeThrows(1, e)
    \/ \E d \in RandomDraws : CommitTurn(1, d)
    \/ OpenStreamReturns(1)
    \/ OpenStreamThrows(1)
    \/ \E c \in ModelChunks :
           reqs[1].nChunks < MaxDeliveries /\ DirectStreamChunk(1, c)
    \/ \E m \in ServiceSnapshots :
           reqs[1].nChunks < MaxDeliveries /\ AgentStreamChunk(1, m)
    \/ StreamThrows(1)
    \/ StreamEnds(1)
    \/ ConsumerNext(1)
    \/ \E d \in RandomDraws : StreamFinish(1, d)
    \/ \E s \in SessionIds : DeleteSession(s)
    \/ ClearAll
    \/ CreateSession
    \/ GetStats

SpecService == InitService /\ [][NextService]_vars

----------------------------------------------------------------------------
(* SpecFunctions: the pure functions of the service, each applied to an     *)
(* input drawn from a bounded set: the two final-answer scans on one        *)
(* message list, and getPersonalityPrompt on a personality and a mood       *)

MaxMessages == 3        \* messages of a list handed to the final-answer scans

ScanTexts == { <<>>, <<" ">>, <<"a">>, <<" ", "b", " ">> }

\* user, assistant, tool-call-bearing assistant and tool-result messages
ScanMessages ==
    { HumanMessage(t) : t \in ScanTexts } \cup { AIMessage(t) : t \in ScanTexts }
        \cup { ToolCallMessage(t) : t \in ScanTexts }
        \cup { ToolMessage(t) : t \in ScanTexts }

ScanLists == UNION { [1..n -> ScanMessages] : n \in 0..MaxMessages }

ScanCall(response) ==
    [ pc |-> "ready", op |-> "scan", response |-> response,
      extracted |-> FALSE, finalMessage |-> <<>>,     \* extractFinalResponse and its value
      scanned |-> FALSE, chunkContent |-> <<>> ]      \* the streaming scan and its value

PromptCall(personality, mood) ==
    [ pc |-> "ready", op |-> "prompt", personality |-> personality, mood |-> mood,
      prompt |-> <<>> ]

InitFunctions ==
    /\ sessionMemories = << >>
    /\ tools = ToolsRegistered
    /\ turnLog = [s \in SessionIds \ {NoSession} |-> <<>>]
    /\ nSaves = 0
    /\ \/ \E l \in ScanLists :
              reqs = [r \in ReqIds |-> IF r = 1 THEN ScanCall(AgentResponse(l))
                                      ELSE IdleRequest]
       \/ reqs = [r \in ReqIds |-> IF r = 1 THEN ScanCall(NoMessagesResponse)
                                   ELSE IdleRequest]
       \/ \E p \in PersonalityIds, m \in 0..100 :
              reqs = [r \in ReqIds |-> IF r = 1 THEN PromptCall(p, m) ELSE IdleRequest]

\* extractFinalResponse(response)
ApplyExtractFinalResponse ==
    /\ reqs[1].op = "scan"
    /\ ~reqs[1].extracted
    /\ reqs' = [reqs EXCEPT ![1].extracted = TRUE,
                            ![1].finalMessage = extractFinalResponse(reqs[1].response),
                            ![1].pc = "applied"]
    /\ UNCHANGED <<sessionMemories, tools, turnLog, nSaves>>

\* the scan streamMessage runs on a snapshot that carries messages
ApplyStreamScan ==
    /\ reqs[1].op = "scan"
    /\ ~reqs[1].scanned
    /\ "messages" \in DOMAIN reqs[1].response
    /\ reqs[1].response.messages # <<>>
    /\ reqs' = [reqs EXCEPT ![1].scanned = TRUE,
                            ![1].chunkContent = AgentCandidate(reqs[1].response.messages),
                            ![1].pc = "applied"]
    /\ UNCHANGED <<sessionMemories, tools, turnLog, nSaves>>

\* getPersonalityPrompt(personality, mood)
ApplyGetPersonalityPrompt ==
    /\ reqs[1].op = "prompt"
    /\ reqs[1].pc = "ready"
    /\ reqs' = [reqs EXCEPT ![1].pc = "applied",
                            ![1].prompt = getPersonalityPrompt(reqs[1].personality,
                                                               reqs[1].mood)]
    /\ UNCHANGED <<sessionMemories, tools, turnLog, nSaves>>

NextFunctions ==
    \/ ApplyExtractFinalResponse
    \/ ApplyStreamScan
    \/ ApplyGetPersonalityPrompt

SpecFunctions == InitFunctions /\ [][NextFunctions]_vars

----------------------------------------------------------------------------
(* SpecAssembly: a processMessage call (request 1) and a streamMessage call *)
(* (request 2) on a service that holds any of a range of stored histories,  *)
(* each followed up to its first await, where the assembled chain has been  *)
(* handed to the backend                                                    *)

MaxExchanges == 2       \* exchanges a session holds when SpecAssembly starts

\* a history the caller sends along in request.conversationHistory
CallerHistory ==
    <<ConversationMessage("user", <<"c">>), ConversationMessage("assistant", <<"d">>)>>

AssemblyRequests ==
    { [message |-> Hi, personality |-> "default", mood |-> 50,
       conversationHistory |-> <<>>],
      [message |-> Hi, personality |-> "default", mood |-> 50,
       conversationHistory |-> CallerHistory],
      [message |-> Play, personality |-> "roast", mood |-> 20,
       conversationHistory |-> CallerHistory],
      [message |-> <<" ">>, personality |-> "default", mood |-> 50,
       conversationHistory |-> <<>>] }

\* the stores of two sessions, each absent or holding 0..MaxExchanges exchanges
AssemblyStores ==
    { [k \in {getMemoryKey(s) : s \in S} |->
          IF k = getMemoryKey("s1") THEN StoredHistory(n1) ELSE StoredHistory(n2)] :
        S \in SUBSET {"s1", "s2"}, n1 \in 0..MaxExchanges, n2 \in 0..MaxExchanges }

InitAssembly ==
    /\ tools \in {0, ToolsRegistered}
    /\ reqs = [r \in ReqIds |-> IdleRequest]
    /\ sessionMemories \in AssemblyStores
    /\ turnLog = [s \in SessionIds \ {NoSession} |-> History(s)]
    /\ nSaves = (Len(History("s1")) + Len(History("s2"))) \div 2

NextAssembly ==
    \/ \E q \in AssemblyRequests, s \in SessionIds :
           reqs[1].pc = "idle" /\ BeginProcess(1, q, s)
    \/ \E q \in AssemblyRequests, s \in SessionIds :
           reqs[2].pc = "idle" /\ BeginStream(2, q, s, FALSE)

SpecAssembly == InitAssembly /\ [][NextAssembly]_vars

----------------------------------------------------------------------------
(* SpecSessions: two concurrent chat requests (requests 1 and 2, each a     *)
(* processMessage or a streamMessage call on any session), interleaved at   *)
(* their awaits and yields, on a service whose "s1" is at the cap and whose *)
(* "s2" holds one exchange or is not tracked yet                            *)

SessionsRequests ==
    { [message |-> Hi, personality |-> "default", mood |-> 50],
      [message |-> Hi, personality |-> "bogus",   mood |-> 50] }

SessionsAgentOutput == <<ToolCallMessage(<<>>), AIMessage(Ok)>>

SessionsError == <<"ETIMEDOUT">>

InitSessions ==
    /\ tools \in {0, ToolsRegistered}
    /\ reqs = [r \in ReqIds |-> IdleRequest]
    /\ \/ sessionMemories =
              (getMemoryKey("s1") :> StoredHistory(MAX_HISTORY_LENGTH \div 2))
       \/ sessionMemories =
              (getMemoryKey("s1") :> StoredHistory(MAX_HISTORY_LENGTH \div 2))
                  @@ (getMemoryKey("s2") :> StoredHistory(1))
    /\ turnLog = [s \in SessionIds \ {NoSession} |-> History(s)]
    /\ nSaves = (Len(History("s1")) + Len(History("s2"))) \div 2

NextSessions ==
    \/ \E r \in {1, 2}, q \in SessionsRequests, s \in SessionIds :
           reqs[r].pc = "idle" /\ BeginProcess(r, q, s)
    \/ \E r \in {1, 2}, q \in SessionsRequests, s \in SessionIds :
           reqs[r].pc = "idle" /\ BeginStream(r, q, s, FALSE)
    \/ \E r \in {1, 2} : AgentInvokeReturns(r, SessionsAgentOutput)
    \/ \E r \in {1, 2} : AgentInvokeThrows(r)
    \/ \E r \in {1, 2} : DirectInvokeReturns(r, AIMessage(Ok))
    \/ \E r \in {1, 2} : DirectInvokeThrows(r, SessionsError)
    \/ \E r \in {1, 2} : CommitTurn(r, 0)
    \/ \E r \in {1, 2} : OpenStreamReturns(r)
    \/ \E r \in {1, 2} : OpenStreamThrows(r)
    \/ \E r \in {1, 2} : reqs[r].nChunks < 1 /\ DirectStreamChunk(r, Ok)
    \/ \E r \in {1, 2} : reqs[r].nChunks < 1 /\ AgentStreamChunk(r, SessionsAgentOutput)
    \/ \E r \in {1, 2} : StreamThrows(r)
    \/ \E r \in {1, 2} : StreamEnds(r)
    \/ \E r \in {1, 2} : ConsumerNext(r)
    \/ \E r \in {1, 2} : StreamFinish(r, 0)

SpecSessions == InitSessions /\ [][NextSessions]_vars

----------------------------------------------------------------------------
(* SpecTools: one call of a tool's _call (SpotifyTool, WebSearchTool,       *)
(* WebOpenTool), followed through its awaits; every external call (fetch,   *)
(* reading a response body, open) settles in any of its possible ways, and  *)
(* the Spotify token may expire at any moment of the call.  Request 1 holds *)
(* the call.                                                                *)

ToolNames == {"spotify_control", "web_search", "web_open"}

NoToolResult == [kind |-> "none", text |-> <<>>]

IdleToolCall ==
    [ pc          |-> "idle",
      op          |-> "tool",
      tool        |-> "none",
      input       |-> <<>>,
      credentials |-> "none",       \* the Spotify token / BRAVE_API_KEY, as read now
      credentialsAtCall |-> "none", \* history: the same when _call was entered
      action      |-> <<>>,
      query       |-> <<>>,
      status      |-> "",           \* status of the response in hand
      ret         |-> "",           \* where getAvailableDevices returns to
      fetches     |-> <<>>,         \* history: the external calls made
      result      |-> NoToolResult ]

\* _call resolves with a string
Returns(call, text) ==
    [call EXCEPT !.pc = "done", !.result = [kind |-> "string", text |-> text]]

\* _call rejects
Throws(call, message) ==
    [call EXCEPT !.pc = "done", !.result = [kind |-> "exception", text |-> message]]

\* an external call is made and awaited
Awaits(call, pc, endpoint) ==
    [call EXCEPT !.pc = pc, !.fetches = Append(@, endpoint)]

\* how a fetch settles: a status, a network failure, or the abort of its timer
FetchOutcomes == {"200", "204", "401", "403", "404", "429", "500", "reject", "abort"}

\* Response.ok
IsOk(status) == status \in {"200", "204"}

\* how reading a body settles: tracks/devices/results ("restricted": devices
\* that are all restricted or in a private session), none of them, an object
\* without the expected properties, or a failure to read or parse
BodyOutcomes == {"items", "restricted", "empty", "malformed", "reject"}

ErrFetchFailed == <<"fetch failed">>

ErrJson == <<"Unexpected end of JSON input">>

Has(message, word) == \E i \in 1..Len(message) : message[i] = word

(* SpotifyTool *)

ConnectFirstText ==
    <<"You need to connect your Spotify account first. Visit: http://127.0.0.1:8000/api/spotify/login">>

InvalidFormatText ==
    <<"Invalid input format. Please use: \"play:song name\", \"pause\", \"search:query\", etc.">>

AuthRequiredText ==
    <<"Authentication required. Visit: http://localhost:8000/api/spotify/login">>

\* mutant: the catch of _call lets the error go
handleError_rethrows(call, message) == Throws(call, message)

\* SpotifyTool.handleError
handleError(call, message) ==
    IF Has(message, "401") \/ Has(message, "authentication")
    THEN Returns(call, <<"Spotify authentication expired. Please reconnect: http://localhost:8000/api/spotify/login">>)
    ELSE IF Has(message, "403")
    THEN Returns(call, <<"Spotify access denied. Please check your account permissions.">>)
    ELSE IF Has(message, "429")
    THEN Returns(call, <<"Spotify rate limit exceeded. Please try again in a moment.">>)
    ELSE Returns(call, <<"Spotify error: ">> \o message)

isMalformedInput(input) ==
    Has(input, "<function") \/ Has(input, "action=") \/ Has(input, "query=")

NoParse == [action |-> <<>>, query |-> <<>>]

\* the token after the first occurrence of key, when it is a value
ValueAfter(input, key) ==
    LET at == {i \in 1..Len(input) : input[i] = key}
        i  == CHOOSE j \in at : \A k \in at : j <= k
    IN  IF at = {} THEN <<>>
        ELSE IF i < Len(input) /\ input[i + 1] \notin {" ", ">", "\"", "'"}
        THEN <<input[i + 1]>>
        ELSE <<>>

parseMalformedInput(input) ==
    IF ValueAfter(input, "action=") # <<>>
    THEN [action |-> ValueAfter(input, "action="), query |-> ValueAfter(input, "query=")]
    ELSE NoParse

\* String.prototype.toLowerCase on the action names the inputs use
ActionLowerCase(action) ==
    [i \in 1..Len(action) |-> IF action[i] = "Pause" THEN "pause" ELSE action[i]]

\* SpotifyTool.parseInput of a string; NoParse stands for null
parseInput(input) ==
    LET cleanInput == Trim(input)
        colons     == {i \in 1..Len(cleanInput) : cleanInput[i] = ":"}
        first      == IF colons = {} THEN Len(cleanInput) + 1
                      ELSE CHOOSE i \in colons : \A j \in colons : i <= j
        action     == SubSeq(cleanInput, 1, first - 1)
        query      == SubSeq(cleanInput, first + 1, Len(cleanInput))
    IN  IF isMalformedInput(cleanInput) THEN parseMalformedInput(cleanInput)
        ELSE IF action = <<>> THEN NoParse
        ELSE [action |-> ActionLowerCase(action), query |-> query]

\* parseInt(query || '50') clamped to 0..100, as it prints
parseVolume(query) ==
    IF query = <<>> THEN "50"
    ELSE IF query = <<"75">> THEN "75"
    ELSE IF query = <<"150">> THEN "100"
    ELSE "NaN"

\* getAvailableDevices returns to its caller with no device ("none"), with
\* restricted devices only ("restricted") or with a usable one ("usable")
DevicesReturn(call, devices) ==
    CASE call.ret = "play_activate" ->
           \* the first 404 of playTrack: activateDevice on a usable device
           IF devices = "usable" /\ call.credentials = "valid"
           THEN Awaits(call, "activate_fetch", "me/player")
           ELSE \* playResponse.status is still 404: the devices are listed again
                IF call.credentials = "valid"
                THEN Awaits([call EXCEPT !.ret = "play_report"], "devices_fetch",
                            "me/player/devices")
                ELSE Returns(call, <<"To play music, please open Spotify on one of your devices first.">>)
      [] call.ret = "play_report" ->
           IF devices = "none"
           THEN Returns(call, <<"To play music, please open Spotify on one of your devices first.">>)
           ELSE Returns(call, <<"Found devices but couldn't activate them.">>)
      [] call.ret = "current_200" ->
           IF devices = "none"
           THEN Returns(call, <<"No music currently playing and no Spotify devices found.">>)
           ELSE Returns(call, <<"No music currently playing.", "Available devices">>)
      [] OTHER ->
           IF devices = "none"
           THEN Returns(call, <<"No active Spotify device found. Please open Spotify on one of your devices first.">>)
           ELSE Returns(call, <<"No active playback session found.", "Available devices">>)

\* SpotifyTool.getAvailableDevices up to its fetch
getAvailableDevices(call, ret) ==
    IF call.credentials # "valid"
    THEN DevicesReturn([call EXCEPT !.ret = ret], "none")
    ELSE Awaits([call EXCEPT !.ret = ret], "devices_fetch", "me/player/devices")

\* playTrack once playResponse is final
PlayOutcome(call, status) ==
    IF status = "200" THEN Returns(call, <<"Now playing">>)
    ELSE IF status = "404" THEN getAvailableDevices(call, "play_report")
    ELSE [call EXCEPT !.pc = "play_text", !.status = status]

\* executeAction up to the first await of the action; token is what
\* getUserToken gives the action
executeAction(call, token) ==
    LET action == call.action
        query  == call.query
    IN  IF action = <<"search">>
        THEN IF Trim(query) = <<>>
             THEN Returns(call, <<"Please provide a search query. Example: \"search:jazz music\"">>)
             ELSE IF token # "valid" THEN Returns(call, AuthRequiredText)
             ELSE Awaits(call, "search_fetch", "search")
        ELSE IF action = <<"play">>
        THEN IF query = <<>>
             THEN Returns(call, <<"Please specify a track to play. Example: \"play:bohemian rhapsody\"">>)
             ELSE IF token # "valid" THEN Returns(call, AuthRequiredText)
             ELSE Awaits(call, "play_search", "search")
        ELSE IF action = <<"pause">>
        THEN IF token # "valid" THEN Returns(call, AuthRequiredText)
             ELSE Awaits(call, "pause_fetch", "me/player/pause")
        ELSE IF action = <<"resume">>
        THEN IF token # "valid" THEN Returns(call, AuthRequiredText)
             ELSE Awaits(call, "resume_fetch", "me/player/play")
        ELSE IF action = <<"skip">>
        THEN IF token # "valid" THEN Returns(call, AuthRequiredText)
             ELSE Awaits(call, "skip_fetch", "me/player/next")
        ELSE IF action = <<"current">>
        THEN IF token # "valid" THEN Returns(call, AuthRequiredText)
             ELSE Awaits(call, "current_fetch", "me/player/currently-playing")
        ELSE IF action = <<"volume">>
        THEN Returns(call, <<"Volume control requires user authentication. Please set volume to ",
                             parseVolume(query), "% directly in Spotify.">>)
        ELSE Returns(call, <<"Unknown Spotify action: ">> \o action
                             \o <<". Available actions: search, play, pause, resume, skip, current, volume">>)

\* SpotifyTool._call up to its first await; token is what the second
\* getUserToken of the same run reads
SpotifyCall(call, token) ==
    IF call.credentials # "valid" THEN Returns(call, ConnectFirstText)
    ELSE IF call.input = Undefined THEN handleError(call, ErrTypeError)
    ELSE LET parsedInput == parseInput(call.input)
         IN  IF parsedInput = NoParse THEN Returns(call, InvalidFormatText)
             ELSE executeAction([call EXCEPT !.action = parsedInput.action,
                                             !.query = parsedInput.query,
                                             !.credentials = token], token)

\* the continuation of a Spotify call when its fetch settles
SpotifyFetchSettles(call, outcome) ==
    CASE call.pc = "search_fetch" ->
           IF outcome = "reject" THEN handleError(call, ErrFetchFailed)
           ELSE IF ~IsOk(outcome)
           THEN handleError(call, <<"Search failed with status ", outcome>>)
           ELSE [call EXCEPT !.pc = "search_json"]
      [] call.pc = "play_search" ->
           IF outcome = "reject"
           THEN Returns(call, <<"Error playing track: ">> \o ErrFetchFailed)
           ELSE IF ~IsOk(outcome)
           THEN Returns(call, <<"Error playing track: ", "Search failed: ", outcome>>)
           ELSE [call EXCEPT !.pc = "play_search_json"]
      [] call.pc = "play_start" ->
           IF outcome = "reject"
           THEN Returns(call, <<"Error playing track: ">> \o ErrFetchFailed)
           ELSE IF outcome = "404" THEN getAvailableDevices(call, "play_activate")
           ELSE PlayOutcome(call, outcome)
      [] call.pc = "play_retry" ->
           IF outcome = "reject"
           THEN Returns(call, <<"Error playing track: ">> \o ErrFetchFailed)
           ELSE PlayOutcome(call, outcome)
      [] call.pc = "devices_fetch" ->
           IF outcome = "reject" \/ ~IsOk(outcome) THEN DevicesReturn(call, "none")
           ELSE [call EXCEPT !.pc = "devices_json"]
      [] call.pc = "activate_fetch" ->
           IF outcome = "200" THEN [call EXCEPT !.pc = "activation_delay"]
           ELSE getAvailableDevices(call, "play_report")
      [] call.pc = "pause_fetch" ->
           IF outcome = "reject" THEN Returns(call, <<"Error pausing: ">> \o ErrFetchFailed)
           ELSE IF outcome = "200" THEN Returns(call, <<"Music paused">>)
           ELSE IF outcome = "404"
           THEN Returns(call, <<"No active Spotify device found. Make sure Spotify is open and playing.">>)
           ELSE Returns(call, <<"Couldn't pause playback (", outcome, "). Make sure Spotify is active.">>)
      [] call.pc = "resume_fetch" ->
           IF outcome = "reject" THEN Returns(call, <<"Error resuming: ">> \o ErrFetchFailed)
           ELSE IF outcome = "200" THEN Returns(call, <<"Music resumed">>)
           ELSE IF outcome = "404"
           THEN Returns(call, <<"No active Spotify device found. Make sure Spotify is open.">>)
           ELSE Returns(call, <<"Couldn't resume playback (", outcome, "). Make sure Spotify is active.">>)
      [] call.pc = "skip_fetch" ->
           IF outcome = "reject" THEN Returns(call, <<"Error skipping: ">> \o ErrFetchFailed)
           ELSE IF outcome = "200" THEN Returns(call, <<"Skipped to next track">>)
           ELSE IF outcome = "404"
           THEN Returns(call, <<"No active Spotify device found. Make sure Spotify is open and playing.">>)
           ELSE Returns(call, <<"Couldn't skip track (", outcome, "). Make sure Spotify is active.">>)
      [] OTHER ->      \* "current_fetch"
           IF outcome = "reject"
           THEN Returns(call, <<"Error getting current track: ">> \o ErrFetchFailed)
           ELSE IF outcome = "200" THEN getAvailableDevices(call, "current_200")
           ELSE IF outcome = "404" THEN getAvailableDevices(call, "current_404")
           ELSE IF IsOk(outcome) THEN [call EXCEPT !.pc = "current_json"]
           ELSE Returns(call, <<"Couldn't get current track (", outcome, "). Make sure Spotify is active.">>)

\* the continuation of a Spotify call when the body it reads settles
SpotifyBodySettles(call, body) ==
    CASE call.pc = "search_json" ->
           IF body = "reject" THEN handleError(call, ErrJson)
           ELSE IF body = "malformed" THEN handleError(call, ErrTypeError)
           ELSE IF body = "empty"
           THEN Returns(call, <<"No tracks found for \"">> \o call.query
                                \o <<"\". Try a different search term.">>)
           ELSE Returns(call, <<"Found tracks for \"">> \o call.query \o <<"\":">>)
      [] call.pc = "play_search_json" ->
           IF body = "reject" THEN Returns(call, <<"Error playing track: ">> \o ErrJson)
           ELSE IF body = "malformed"
           THEN Returns(call, <<"Error playing track: ">> \o ErrTypeError)
           ELSE IF body = "empty"
           THEN Returns(call, <<"No tracks found for \"">> \o call.query
                                \o <<"\". Try a different search term.">>)
           ELSE Awaits(call, "play_start", "me/player/play")
      [] call.pc = "play_text" ->
           IF body = "reject" THEN Returns(call, <<"Error playing track: ">> \o ErrFetchFailed)
           ELSE Returns(call, <<"Couldn't start playback (", call.status,
                                "). Make sure Spotify is open and active on one of your devices.">>)
      [] call.pc = "devices_json" ->
           IF body \in {"reject", "malformed", "empty"} THEN DevicesReturn(call, "none")
           ELSE IF body = "restricted" THEN DevicesReturn(call, "restricted")
           ELSE DevicesReturn(call, "usable")
      [] OTHER ->      \* "current_json"
           IF body = "reject"
           THEN Returns(call, <<"Error getting current track: ">> \o ErrJson)
           ELSE IF body = "malformed"
           THEN Returns(call, <<"Error getting current track: ">> \o ErrTypeError)
           ELSE IF body = "empty"
           THEN Returns(call, <<"Spotify is open but no track information available. Try playing a song first.">>)
           ELSE Returns(call, <<"Currently playing">>)

(* WebSearchTool *)

SearchTechnicalIssueText ==
    <<"Search temporarily unavailable due to a technical issue. Please try again later.">>

\* WebSearchTool._call up to its fetch
WebSearchCall(call) ==
    IF call.credentials # "valid"
    THEN Returns(call, <<"Web search is currently unavailable. Please check the configuration.">>)
    ELSE Awaits([call EXCEPT !.query = call.input], "brave_fetch", "brave/web/search")

WebSearchFetchSettles(call, outcome) ==
    IF outcome = "abort"
    THEN Returns(call, <<"Search request timed out. Please try a more specific query.">>)
    ELSE IF outcome = "reject" THEN Returns(call, SearchTechnicalIssueText)
    ELSE IF ~IsOk(outcome) THEN [call EXCEPT !.pc = "brave_text", !.status = outcome]
    ELSE [call EXCEPT !.pc = "brave_json"]

WebSearchBodySettles(call, body) ==
    IF body = "reject" THEN Returns(call, SearchTechnicalIssueText)
    ELSE IF call.pc = "brave_text"
    THEN IF call.status = "429"
         THEN Returns(call, <<"Search rate limit exceeded. Please try again later.">>)
         ELSE IF call.status = "401"
         THEN Returns(call, <<"Search API authentication failed. Please check the configuration.">>)
         ELSE Returns(call, <<"Search service temporarily unavailable. Please try again later.">>)
    ELSE IF body \in {"malformed", "empty"}
    THEN Returns(call, <<"No current information found for \"">> \o call.query
                         \o <<"\". The topic might be too specific or new.">>)
    ELSE Returns(call, <<"Found results for \"">> \o call.query \o <<"\":">>)

(* WebOpenTool *)

\* /^https?:\/\//i
HasProtocol(url) == url # <<>> /\ url[1] \in {"https://", "http://"}

\* whether new URL(url) accepts a URL that has a protocol
IsValidURL(url) == Len(url) > 1 /\ ~Has(url, " ")

OpenOutcomes == {"opened", "ENOENT", "permission", "other"}

\* WebOpenTool._call up to its await of open(url)
WebOpenCall(call) ==
    LET url   == call.input
        fixed == IF HasProtocol(url) THEN url ELSE <<"https://">> \o url
    IN  IF url = Undefined \/ url = <<>>
        THEN Returns(call, <<"Please provide a valid URL to open.">>)
        ELSE IF ~HasProtocol(url) /\ ~(Has(url, ".") /\ ~Has(url, " "))
        THEN Returns(call, <<"Please provide a valid URL with http:// or https:// protocol.">>)
        ELSE IF ~IsValidURL(fixed)
        THEN Returns(call, <<"The provided URL is not valid. Please check the format and try again.">>)
        ELSE Awaits([call EXCEPT !.query = fixed], "open_wait", "open")

WebOpenSettles(call, outcome) ==
    IF outcome = "opened"
    THEN Returns(call, <<"Successfully opened ">> \o call.query
                         \o <<" in your default browser.">>)
    ELSE IF outcome = "ENOENT"
    THEN Returns(call, <<"Unable to open browser. No default browser application found on this system.">>)
    ELSE IF outcome = "permission"
    THEN Returns(call, <<"Permission denied when trying to open browser. Please check system permissions.">>)
    ELSE Returns(call, <<"Failed to open the web page. Please try again or open the URL manually.">>)

(* The calls and the steps of the environment *)

SpotifyInputs ==
    { Undefined, <<>>, <<" ", "Pause", " ">>, <<"resume">>, <<"skip">>, <<"current">>,
      <<"volume", ":", "150">>, <<"search", ":">>, <<"search", ":", "jazz">>,
      <<"play">>, <<"play", ":", "song">>, <<"dance">>,
      <<"<function", " ", "action=", "play", " ", "query=", "song", ">">>,
      <<"<function", ">">> }

WebSearchInputs == { <<"news">> }

WebOpenInputs ==
    { Undefined, <<>>, <<"example", ".", "com">>, <<"not", " ", "a", ".", "url">>,
      <<"localhost">>, <<"https://", "example", ".", "com">>,
      <<"https://", "bad", " ", "host">>, <<"https://">> }

SpotifyFetchPcs ==
    { "search_fetch", "play_search", "play_start", "play_retry", "devices_fetch",
      "activate_fetch", "pause_fetch", "resume_fetch", "skip_fetch", "current_fetch" }

SpotifyBodyPcs ==
    { "search_json", "play_search_json", "play_text", "devices_json", "current_json" }

InitTools ==
    /\ sessionMemories = << >>
    /\ tools = ToolsRegistered
    /\ turnLog = [s \in SessionIds \ {NoSession} |-> <<>>]
    /\ nSaves = 0
    /\ reqs = [r \in ReqIds |-> IF r = 1 THEN IdleToolCall ELSE IdleRequest]

\* the agent calls spotify_control; the token is missing, expired or valid,
\* and a valid one may expire between the two reads of the same run
CallSpotify(input, credentials, token) ==
    /\ reqs[1].pc = "idle"
    /\ IF credentials = "valid" THEN token \in {"valid", "expired"}
       ELSE token = credentials
    /\ reqs' = [reqs EXCEPT ![1] =
          SpotifyCall([IdleToolCall EXCEPT !.tool = "spotify_control", !.input = input,
                                           !.credentials = credentials,
                                           !.credentialsAtCall = credentials], token)]
    /\ UNCHANGED <<sessionMemories, tools, turnLog, nSaves>>

\* the agent calls web_search; BRAVE_API_KEY was set or not at construction
CallWebSearch(input, credentials) ==
    /\ reqs[1].pc = "idle"
    /\ reqs' = [reqs EXCEPT ![1] =
          WebSearchCall([IdleToolCall EXCEPT !.tool = "web_search", !.input = input,
                                             !.credentials = credentials,
                                             !.credentialsAtCall = credentials])]
    /\ UNCHANGED <<sessionMemories, tools, turnLog, nSaves>>

\* the agent calls web_open
CallWebOpen(input) ==
    /\ reqs[1].pc = "idle"
    /\ reqs' = [reqs EXCEPT ![1] =
          WebOpenCall([IdleToolCall EXCEPT !.tool = "web_open", !.input = input])]
    /\ UNCHANGED <<sessionMemories, tools, turnLog, nSaves>>

\* a fetch settles
FetchSettles(outcome) ==
    /\ \/ /\ reqs[1].pc \in SpotifyFetchPcs
          /\ outcome # "abort"
          /\ reqs' = [reqs EXCEPT ![1] = SpotifyFetchSettles(reqs[1], outcome)]
       \/ /\ reqs[1].pc = "brave_fetch"
          /\ reqs' = [reqs EXCEPT ![1] = WebSearchFetchSettles(reqs[1], outcome)]
    /\ UNCHANGED <<sessionMemories, tools, turnLog, nSaves>>

\* response.json() / response.text() settles
BodySettles(body) ==
    /\ \/ /\ reqs[1].pc \in SpotifyBodyPcs
          /\ reqs' = [reqs EXCEPT ![1] = SpotifyBodySettles(reqs[1], body)]
       \/ /\ reqs[1].pc \in {"brave_text", "brave_json"}
          /\ reqs' = [reqs EXCEPT ![1] = WebSearchBodySettles(reqs[1], body)]
    /\ UNCHANGED <<sessionMemories, tools, turnLog, nSaves>>

\* open(url) settles
OpenSettles(outcome) ==
    /\ reqs[1].pc = "open_wait"
    /\ reqs' = [reqs EXCEPT ![1] = WebOpenSettles(reqs[1], outcome)]
    /\ UNCHANGED <<sessionMemories, tools, turnLog, nSaves>>

\* the one-second wait of playTrack after activateDevice ends
ActivationDelayEnds ==
    /\ reqs[1].pc = "activation_delay"
    /\ reqs' = [reqs EXCEPT ![1] = Awaits(reqs[1], "play_retry", "me/player/play")]
    /\ UNCHANGED <<sessionMemories, tools, turnLog, nSaves>>

\* Date.now() passes expires_at while a Spotify call is under way
TokenExpires ==
    /\ reqs[1].tool = "spotify_control"
    /\ reqs[1].pc \notin {"idle", "done"}
    /\ reqs[1].credentials = "valid"
    /\ reqs' = [reqs EXCEPT ![1].credentials = "expired"]
    /\ UNCHANGED <<sessionMemories, tools, turnLog, nSaves>>

NextTools ==
    \/ \E i \in SpotifyInputs, c \in {"valid", "missing", "expired"},
          t \in {"valid", "missing", "expired"} : CallSpotify(i, c, t)
    \/ \E i \in WebSearchInputs, c \in {"valid", "missing"} : CallWebSearch(i, c)
    \/ \E i \in WebOpenInputs : CallWebOpen(i)
    \/ \E o \in FetchOutcomes : FetchSettles(o)
    \/ \E b \in BodyOutcomes : BodySettles(b)
    \/ \E o \in OpenOutcomes : OpenSettles(o)
    \/ ActivationDelayEnds
    \/ TokenExpires

SpecTools == InitTools /\ [][NextTools]_vars

----------------------------------------------------------------------------
(* SpecRecovery: one call of handleMalformedFunctionCall on a malformed     *)
(* response and a user message drawn from bounded sets of texts, followed   *)
(* through its one await, the manual invocation of the Spotify tool, which  *)
(* returns a text or throws.  Request 1 holds the call.                     *)

MaxPieces == 3          \* pieces a malformed response of SpecRecovery is made of

Quote == "\""

\* the characters the first pattern's group leaves out: [^"'}]
GroupStops == {Quote, "'", "}"}

Least(S) == CHOOSE x \in S : \A y \in S : x <= y

\* /play/i matches at position i of s
PlayAt(s, i) ==
    /\ i + 3 <= Len(s)
    /\ \A j \in 1..4 : ToLowerCase(s[i + j - 1]) = Play[j]

\* s.match(/play\s+(G+)/i), G any character outside `stops`: no match <<>>, or
\* <<the group>>.  The leftmost start wins; \s+ takes the whole run of spaces
\* and gives its last space back to the group only when the group would
\* otherwise be empty
PlayMatch(s, stops) ==
    LET starts == {i \in 1..Len(s) : /\ PlayAt(s, i)
                                     /\ i + 5 <= Len(s)
                                     /\ s[i + 4] = " "
                                     /\ s[i + 5] \notin stops}
    IN  IF starts = {} THEN <<>>
        ELSE LET i    == Least(starts)
                 k    == Least({n \in (i + 5)..(Len(s) + 1) :
                                    n = Len(s) + 1 \/ s[n] # " "})
                 from == IF k <= Len(s) /\ s[k] \notin stops THEN k ELSE k - 1
                 to   == Least({e \in from..Len(s) :
                                    e = Len(s) \/ s[e + 1] \in stops})
             IN  <<SubSeq(s, from, to)>>

\* s.match(/"([^"]+)"/): no match <<>>, or <<the group>>
QuotedMatch(s) ==
    LET closes(i) == {j \in (i + 2)..Len(s) : s[j] = Quote}
        starts    == {i \in 1..Len(s) : /\ s[i] = Quote
                                        /\ i + 2 <= Len(s)
                                        /\ s[i + 1] # Quote
                                        /\ closes(i) # {}}
    IN  IF starts = {} THEN <<>>
        ELSE LET i == Least(starts)
             IN  <<SubSeq(s, i + 1, Least(closes(i)) - 1)>>

\* mutant: the original user text is tried before the malformed response
extractSongName_messageFirst(response, originalMessage) ==
    LET onMessage == PlayMatch(originalMessage, {})
        played    == PlayMatch(response, GroupStops)
        quoted    == QuotedMatch(response)
    IN  IF onMessage # <<>> THEN Trim(onMessage[1])
        ELSE IF played # <<>> THEN Trim(played[1])
        ELSE IF quoted # <<>> THEN Trim(quoted[1])
        ELSE <<>>

\* extractSongName: the loop returns at the first pattern that matches, with
\* its trimmed group, were that empty; the third entry is the match of the
\* original message, computed beforehand
extractSongName(response, originalMessage) ==
    LET played    == PlayMatch(response, GroupStops)
        quoted    == QuotedMatch(response)
        onMessage == PlayMatch(originalMessage, {})
    IN  IF played # <<>> THEN Trim(played[1])
        ELSE IF quoted # <<>> THEN Trim(quoted[1])
        ELSE IF onMessage # <<>> THEN Trim(onMessage[1])
        ELSE <<>>

\* what handleMalformedMusicRequest returns when no song name was extracted
MusicRecoveryText ==
    <<"I had trouble with that music request. Make sure you're logged into Spotify and try something like \"play Bohemian Rhapsody\".">>

\* what manuallyInvokeSpotifyTool returns when the tool is missing or throws
MusicSystemText(songName) ==
    <<"I'd like to play \"">> \o songName
        \o <<"\" but I'm having trouble with the music system. Make sure you're logged into Spotify.">>

\* this.tools.find(t => t.name === name): the constructor registers the three
\* tools of ToolNames, or none
FindTool(name) == tools # 0 /\ name \in ToolNames

RecoveryCall(response, message) ==
    [ pc |-> "ready", op |-> "recover", response |-> response,
      request |-> [message |-> message, personality |-> "default", mood |-> 50],
      songName |-> <<>>,
      invocations |-> <<>>,         \* history: argument of each spotifyTool.invoke
      toolThrew |-> FALSE,          \* history: the invocation threw
      result |-> [kind |-> "none", text |-> <<>>] ]

RecoveryReturns(call, text) ==
    [call EXCEPT !.pc = "done", !.result = [kind |-> "returned", text |-> text]]

RecoveryPieces == { Play, <<" ">>, <<"x">>, <<Quote>> }

RECURSIVE Glue(_)
Glue(pieces) == IF pieces = <<>> THEN <<>> ELSE Head(pieces) \o Glue(Tail(pieces))

RecoveryResponses ==
    { Glue(p) : p \in UNION { [1..n -> RecoveryPieces] : n \in 0..MaxPieces } }
        \cup { MalformedCall,
               <<"<function", "=", "spotify_control", ">", "{">> \o Play
                   \o <<" ", "x", "}">>,
               Play \o <<" ", " ", "}">>,
               Play \o <<" ", "'", "x", "'">> \o <<Quote, "y", " ", Quote>>,
               <<Quote, Quote, "x", Quote>> }

RecoveryMessages ==
    { Hi, Undefined, Play,
      Play \o <<" ", "y">>,
      Play \o <<" ", " ">>,
      <<"P", "L", "A", "Y", " ", "y", " ", "z", " ">>,
      <<"s", "o", "n", "g", " ", Quote, "y", Quote>> }

RecoveryToolTexts == { <<"Now playing">>, ConnectFirstText }

InitRecovery ==
    /\ sessionMemories = << >>
    /\ tools \in {0, ToolsRegistered}
    /\ turnLog = [s \in SessionIds \ {NoSession} |-> <<>>]
    /\ nSaves = 0
    /\ \E response \in RecoveryResponses, message \in RecoveryMessages :
           reqs = [r \in ReqIds |-> IF r = 1 THEN RecoveryCall(response, message)
                                   ELSE IdleRequest]

\* handleMalformedFunctionCall up to its return or to the await of invoke
HandleMalformedFunctionCall ==
    /\ reqs[1].op = "recover"
    /\ reqs[1].pc = "ready"
    /\ LET call     == reqs[1]
           songName == extractSongName(call.response, call.request.message)
           named    == [call EXCEPT !.songName = songName]
       IN  reqs' = [reqs EXCEPT ![1] =
              IF ~isMusicRequest(call.request.message)
              THEN RecoveryReturns(call, MalformedRecoveryText)
              ELSE IF songName = <<>>
              THEN RecoveryReturns(call, MusicRecoveryText)
              ELSE IF ~FindTool("spotify_control")
              THEN RecoveryReturns(named, MusicSystemText(songName))
              ELSE [named EXCEPT !.pc = "tool_invoke",
                                 !.invocations =
                                     Append(@, <<"play:">> \o songName)]]
    /\ UNCHANGED <<sessionMemories, tools, turnLog, nSaves>>

\* spotifyTool.invoke resolves: its text is returned
RecoveryToolReturns(text) ==
    /\ reqs[1].op = "recover"
    /\ reqs[1].pc = "tool_invoke"
    /\ reqs' = [reqs EXCEPT ![1] = RecoveryReturns(@, text)]
    /\ UNCHANGED <<sessionMemories, tools, turnLog, nSaves>>

\* mutant: the rejection of the invocation leaves handleMalformedFunctionCall
RecoveryToolThrows_propagates(message) ==
    /\ reqs[1].op = "recover"
    /\ reqs[1].pc = "tool_invoke"
    /\ reqs' = [reqs EXCEPT ![1] =
          [@ EXCEPT !.pc = "done", !.toolThrew = TRUE,
                    !.result = [kind |-> "exception", text |-> message]]]
    /\ UNCHANGED <<sessionMemories, tools, turnLog, nSaves>>

\* spotifyTool.invoke rejects: the catch block of manuallyInvokeSpotifyTool
RecoveryToolThrows(message) ==
    /\ reqs[1].op = "recover"
    /\ reqs[1].pc = "tool_invoke"
    /\ reqs' = [reqs EXCEPT ![1] =
          RecoveryReturns([@ EXCEPT !.toolThrew = TRUE], MusicSystemText(@.songName))]
    /\ UNCHANGED <<sessionMemories, tools, turnLog, nSaves>>

NextRecovery ==
    \/ HandleMalformedFunctionCall
    \/ \E t \in RecoveryToolTexts : RecoveryToolReturns(t)
    \/ \E e \in BackendErrors : RecoveryToolThrows(e)

SpecRecovery == InitRecovery /\ [][NextRecovery]_vars

----------------------------------------------------------------------------
(* DelayedActionProcessor: polling of the delayed-action queue *)

POLL_INTERVAL == 5000
CLEANUP_INTERVAL == 300000

MaxStarts == 2          \* start() calls explored by SpecProcessor
MaxRuns == 2            \* polling and cleanup runs in flight at once
MaxManual == 1          \* triggerManualProcess() calls explored
MaxTimeSteps == 2       \* advances of the clock explored

ActionIds == {"a1", "a2", "a3"}

\* executeAt of the scheduled actions, in milliseconds of the model's clock
ExecuteAt == [a1 |-> 0, a2 |-> POLL_INTERVAL, a3 |-> 2 * POLL_INTERVAL]

DelayedAction(id) ==
    [id |-> id, sessionId |-> "s1", message |-> Hi, executeAt |-> ExecuteAt[id]]

\* the processor, the timers it has set, the Redis queue and the clock;
\* callbackCalls, scheduled, startCalls, manualCalls and timeSteps are history
IdleProcessor ==
    [op            |-> "processor",
     isRunning     |-> FALSE,
     intervalId    |-> 0,
     callback      |-> FALSE,
     timers        |-> {},
     nTimers       |-> 0,
     keys          |-> {},
     queue         |-> {},
     now           |-> 0,
     runs          |-> <<>>,
     callbackCalls |-> [a \in ActionIds |-> 0],
     scheduled     |-> {},
     startCalls    |-> 0,
     manualCalls   |-> 0,
     timeSteps     |-> 0]

\* a call of processDelayedActions, up to its await of getPendingActions
ProcessRun(origin) ==
    [kind |-> "process", origin |-> origin, pc |-> "get_pending",
     pending |-> <<>>, i |-> 0]

\* a run that has returned leaves the table of runs in flight
SetRun(P, k, run) ==
    IF run.pc = "done"
    THEN [P EXCEPT !.runs = SubSeq(@, 1, k - 1) \o SubSeq(@, k + 1, Len(@))]
    ELSE [P EXCEPT !.runs[k] = run]

\* the for loop of processDelayedActions moves to the next action or ends
NextAction(run) ==
    IF run.i < Len(run.pending) THEN [run EXCEPT !.pc = "execute", !.i = @ + 1]
    ELSE [run EXCEPT !.pc = "done"]

RECURSIVE ByScore(_)
ByScore(ids) ==
    IF ids = {} THEN <<>>
    ELSE LET first == CHOOSE a \in ids : \A b \in ids : ExecuteAt[a] <= ExecuteAt[b]
         IN  <<DelayedAction(first)>> \o ByScore(ids \ {first})

\* zrangebyscore 0..now, then the stored action of every id that still has one
getPendingActions(P) ==
    ByScore({a \in P.queue \cap P.keys : ExecuteAt[a] <= P.now})

\* del of the key, then zrem of the id; an error of either is caught
completeAction(P, id, outcome) ==
    IF outcome = "ok"
    THEN [P EXCEPT !.keys = @ \ {id}, !.queue = @ \ {id}]
    ELSE IF outcome = "zrem_failed"
    THEN [P EXCEPT !.keys = @ \ {id}]
    ELSE P

\* ids whose score is five minutes old or older are removed with their keys
cleanup(P) ==
    LET expiredIds == {a \in P.queue : ExecuteAt[a] <= P.now - 300000}
    IN  [P EXCEPT !.keys = @ \ expiredIds, !.queue = @ \ expiredIds]

InitProcessor ==
    /\ sessionMemories = << >>
    /\ tools = 0
    /\ turnLog = [s \in SessionIds \ {NoSession} |-> <<>>]
    /\ nSaves = 0
    /\ \E stored \in SUBSET {"a1", "a2"}, callback \in BOOLEAN :
           reqs = [r \in ReqIds |->
                     IF r = 1
                     THEN [IdleProcessor EXCEPT !.keys = stored, !.queue = stored,
                                                !.scheduled = stored,
                                                !.callback = callback]
                     ELSE IdleRequest]

\* one call of executeAction on any action at any time of the clock
InitExecuteAction ==
    /\ sessionMemories = << >>
    /\ tools = 0
    /\ turnLog = [s \in SessionIds \ {NoSession} |-> <<>>]
    /\ nSaves = 0
    /\ \E id \in ActionIds, stored \in SUBSET ActionIds, callback \in BOOLEAN,
          now \in {0, POLL_INTERVAL} :
           reqs = [r \in ReqIds |->
                     IF r = 1
                     THEN [IdleProcessor EXCEPT
                             !.keys = stored, !.queue = stored,
                             !.scheduled = stored, !.callback = callback,
                             !.now = now,
                             !.runs = << [kind |-> "process", origin |-> "direct",
                                          pc |-> "execute",
                                          pending |-> <<DelayedAction(id)>>,
                                          i |-> 1] >>]
                     ELSE IdleRequest]

\* start(): nothing when running; else the poll timer, the cleanup timer whose
\* id is not kept, and the initial processDelayedActions
Start ==
    /\ reqs[1].op = "processor"
    /\ reqs[1].startCalls < MaxStarts
    /\ reqs[1].isRunning \/ Len(reqs[1].runs) < MaxRuns
    /\ LET P == [reqs[1] EXCEPT !.startCalls = @ + 1]
       IN  reqs' = [reqs EXCEPT ![1] =
              IF P.isRunning THEN P
              ELSE [P EXCEPT
                      !.isRunning  = TRUE,
                      !.intervalId = P.nTimers + 1,
                      !.nTimers    = @ + 2,
                      !.timers     = @ \cup
                          { [id |-> P.nTimers + 1, kind |-> "poll",
                             next |-> P.now + POLL_INTERVAL],
                            [id |-> P.nTimers + 2, kind |-> "cleanup",
                             next |-> P.now + CLEANUP_INTERVAL] },
                      !.runs       = Append(@, ProcessRun("initial"))]]
    /\ UNCHANGED <<sessionMemories, tools, turnLog, nSaves>>

\* stop(): nothing when not running; else clearInterval of intervalId
Stop ==
    /\ reqs[1].op = "processor"
    /\ LET P == reqs[1]
       IN  reqs' = [reqs EXCEPT ![1] =
              IF ~P.isRunning THEN P
              ELSE IF P.intervalId # 0
              THEN [P EXCEPT !.isRunning  = FALSE,
                             !.timers     = {t \in @ : t.id # P.intervalId},
                             !.intervalId = 0]
              ELSE [P EXCEPT !.isRunning = FALSE]]
    /\ UNCHANGED <<sessionMemories, tools, turnLog, nSaves>>

\* triggerManualProcess(): processDelayedActions outside the timers
TriggerManualProcess ==
    /\ reqs[1].op = "processor"
    /\ reqs[1].manualCalls < MaxManual
    /\ Len(reqs[1].runs) < MaxRuns
    /\ reqs' = [reqs EXCEPT ![1] =
          [@ EXCEPT !.manualCalls = @ + 1,
                    !.runs = Append(@, ProcessRun("manual"))]]
    /\ UNCHANGED <<sessionMemories, tools, turnLog, nSaves>>

\* the clock reaches the next firing of a timer (a poll interval without timers)
TimePasses ==
    /\ reqs[1].op = "processor"
    /\ reqs[1].timeSteps < MaxTimeSteps
    /\ \A t \in reqs[1].timers : t.next > reqs[1].now
    /\ reqs' = [reqs EXCEPT ![1] =
          [@ EXCEPT !.timeSteps = @ + 1,
                    !.now = IF reqs[1].timers = {} THEN @ + POLL_INTERVAL
                            ELSE Least({t.next : t \in reqs[1].timers})]]
    /\ UNCHANGED <<sessionMemories, tools, turnLog, nSaves>>

\* the poll timer fires: its callback calls processDelayedActions
PollTick(t) ==
    /\ reqs[1].op = "processor"
    /\ t \in reqs[1].timers
    /\ t.kind = "poll"
    /\ t.next <= reqs[1].now
    /\ Len(reqs[1].runs) < MaxRuns
    /\ reqs' = [reqs EXCEPT ![1] =
          [@ EXCEPT !.timers = (@ \ {t})
                        \cup {[t EXCEPT !.next = @ + POLL_INTERVAL]},
                    !.runs = Append(@, ProcessRun("tick"))]]
    /\ UNCHANGED <<sessionMemories, tools, turnLog, nSaves>>

\* the cleanup timer fires: its callback calls cleanup
CleanupTick(t) ==
    /\ reqs[1].op = "processor"
    /\ t \in reqs[1].timers
    /\ t.kind = "cleanup"
    /\ t.next <= reqs[1].now
    /\ Len(reqs[1].runs) < MaxRuns
    /\ reqs' = [reqs EXCEPT ![1] =
          [@ EXCEPT !.timers = (@ \ {t})
                        \cup {[t EXCEPT !.next = @ + CLEANUP_INTERVAL]},
                    !.runs = Append(@, [kind |-> "cleanup", origin |-> "tick",
                                        pc |-> "cleanup", pending |-> <<>>,
                                        i |-> 0])]]
    /\ UNCHANGED <<sessionMemories, tools, turnLog, nSaves>>

\* cleanup settles; an error of Redis is logged and removes nothing
CleanupSettles(k, ok) ==
    /\ reqs[1].op = "processor"
    /\ k \in DOMAIN reqs[1].runs
    /\ reqs[1].runs[k].pc = "cleanup"
    /\ reqs' = [reqs EXCEPT ![1] =
          LET P == SetRun(@, k, [@.runs[k] EXCEPT !.pc = "done"])
          IN  IF ok THEN cleanup(P) ELSE P]
    /\ UNCHANGED <<sessionMemories, tools, turnLog, nSaves>>

\* getPendingActions settles (an error of Redis gives no actions):
\* processDelayedActions returns on an empty list, else enters its loop
GetPendingSettles(k, ok) ==
    /\ reqs[1].op = "processor"
    /\ k \in DOMAIN reqs[1].runs
    /\ reqs[1].runs[k].pc = "get_pending"
    /\ LET P              == reqs[1]
           pendingActions == IF ok THEN getPendingActions(P) ELSE <<>>
       IN  reqs' = [reqs EXCEPT ![1] =
              SetRun(P, k, NextAction([P.runs[k] EXCEPT !.pending = pendingActions]))]
    /\ UNCHANGED <<sessionMemories, tools, turnLog, nSaves>>

\* executeAction up to its first await: the due test, then the call of the
\* callback or, without a callback, of completeAction
ExecuteAction(k) ==
    /\ reqs[1].op = "processor"
    /\ k \in DOMAIN reqs[1].runs
    /\ reqs[1].runs[k].pc = "execute"
    /\ LET P      == reqs[1]
           run    == P.runs[k]
           action == run.pending[run.i]
       IN  reqs' = [reqs EXCEPT ![1] =
              IF action.executeAt > P.now
              THEN SetRun(P, k, NextAction(run))
              ELSE IF P.callback
              THEN [P EXCEPT !.runs[k].pc = "await_callback",
                             !.callbackCalls[action.id] = @ + 1]
              ELSE [P EXCEPT !.runs[k].pc = "await_complete"]]
    /\ UNCHANGED <<sessionMemories, tools, turnLog, nSaves>>

\* mutant: a rejected callback ends executeAction and the action is retried
CallbackSettles_retriesOnThrow(k, ok) ==
    /\ reqs[1].op = "processor"
    /\ k \in DOMAIN reqs[1].runs
    /\ reqs[1].runs[k].pc = "await_callback"
    /\ LET P      == reqs[1]
           run    == P.runs[k]
           action == run.pending[run.i]
       IN  reqs' = [reqs EXCEPT ![1] =
              IF ok THEN [P EXCEPT !.runs[k].pc = "await_complete"]
              ELSE SetRun(P, k, NextAction(run))]
    /\ UNCHANGED <<sessionMemories, tools, turnLog, nSaves>>

\* the callback resolves or rejects: completeAction is called after it, in the
\* try block or in the catch block
CallbackSettles(k, ok) ==
    /\ reqs[1].op = "processor"
    /\ k \in DOMAIN reqs[1].runs
    /\ reqs[1].runs[k].pc = "await_callback"
    /\ reqs' = [reqs EXCEPT ![1] =
          [@ EXCEPT !.runs[k].pc = IF ok THEN "await_complete"
                                   ELSE "await_complete_catch"]]
    /\ UNCHANGED <<sessionMemories, tools, turnLog, nSaves>>

\* completeAction settles: executeAction returns and the loop goes on
CompleteActionSettles(k, outcome) ==
    /\ reqs[1].op = "processor"
    /\ k \in DOMAIN reqs[1].runs
    /\ reqs[1].runs[k].pc \in {"await_complete", "await_complete_catch"}
    /\ LET P      == reqs[1]
           run    == P.runs[k]
           action == run.pending[run.i]
       IN  reqs' = [reqs EXCEPT ![1] =
              SetRun(completeAction(P, action.id, outcome), k, NextAction(run))]
    /\ UNCHANGED <<sessionMemories, tools, turnLog, nSaves>>

NextExecuteAction ==
    \/ TimePasses
    \/ \E k \in DOMAIN reqs[1].runs : ExecuteAction(k)
    \/ \E k \in DOMAIN reqs[1].runs, ok \in BOOLEAN : CallbackSettles(k, ok)
    \/ \E k \in DOMAIN reqs[1].runs, outcome \in {"ok", "del_failed", "zrem_failed"} :
           CompleteActionSettles(k, outcome)

NextProcessor ==
    \/ Start
    \/ Stop
    \/ TriggerManualProcess
    \/ TimePasses
    \/ \E t \in reqs[1].timers : PollTick(t)
    \/ \E t \in reqs[1].timers : CleanupTick(t)
    \/ \E k \in DOMAIN reqs[1].runs, ok \in BOOLEAN : CleanupSettles(k, ok)
    \/ \E k \in DOMAIN reqs[1].runs, ok \in BOOLEAN : GetPendingSettles(k, ok)
    \/ \E k \in DOMAIN reqs[1].runs : ExecuteAction(k)
    \/ \E k \in DOMAIN reqs[1].runs, ok \in BOOLEAN : CallbackSettles(k, ok)
    \/ \E k \in DOMAIN reqs[1].runs, outcome \in {"ok", "del_failed", "zrem_failed"} :
           CompleteActionSettles(k, outcome)

SpecExecuteAction == InitExecuteAction /\ [][NextExecuteAction]_vars

SpecProcessor == InitProcessor /\ [][NextProcessor]_vars

----------------------------------------------------------------------------
(* Vocabulary of the properties *)

Min(a, b) == IF a <= b THEN a ELSE b

IsPrefix(p, s) == Len(p) <= Len(s) /\ SubSeq(s, 1, Len(p)) = p

RECURSIVE Concat(_)
Concat(ss) == IF ss = <<>> THEN <<>> ELSE Head(ss) \o Concat(Tail(ss))

UserTurn(text) == [role |-> "user", content |-> text]

AssistantTurn(text) == [role |-> "assistant", content |-> text]

RealSessions == SessionIds \ {NoSession}

DoneProcess(r) == reqs[r].op = "process" /\ reqs[r].pc = "done"

Succeeded(r) == DoneProcess(r) /\ reqs[r].result.kind = "success"

\* the fragments streamMessage has yielded so far
Fragments(r) ==
    reqs[r].yielded \o (IF reqs[r].pc = "yielded" THEN <<reqs[r].pending>> ELSE <<>>)

----------------------------------------------------------------------------
(* C1: every stored history has at most MAX_HISTORY_LENGTH turns and is    *)
(* exactly the last min(20, 2N) turns, in order, of the turns appended to  *)
(* the session by its N saveToMemory calls.                                *)

C1_HistoryIsLastH ==
    \A s \in RealSessions :
        /\ Len(History(s)) <= 20
        /\ Len(History(s)) = Min(20, Len(turnLog[s]))
        /\ History(s) = SubSeq(turnLog[s], Len(turnLog[s]) - Len(History(s)) + 1,
                                Len(turnLog[s]))

\* a session whose appends went past the cap, so that the oldest pair was evicted
C1_Witness ==
    \E s \in RealSessions :
        /\ Len(turnLog[s]) > 20
        /\ Len(History(s)) = 20
        /\ History(s)[1] # turnLog[s][1]

----------------------------------------------------------------------------
(* C2: a processMessage call that returns a success Response appends       *)
(* exactly one (user, assistant) pair to its session: the request message  *)
(* and the returned Response.message; no other step of the call, and no    *)
(* call that returns an error Response, changes any history.  So the       *)
(* history of a session has two turns per successful call on it.           *)

ProcessStep(r) == reqs'[r] # reqs[r] /\ reqs'[r].op = "process"

C2_CommitStep ==
    \A r \in ReqIds :
        ProcessStep(r) =>
            IF /\ reqs'[r].pc = "done"
               /\ reqs'[r].result.kind = "success"
               /\ reqs'[r].sessionId # NoSession
            THEN /\ HistoryOf(sessionMemories', reqs'[r].sessionId) =
                        SliceLast(HistoryOf(sessionMemories, reqs'[r].sessionId)
                                     \o <<UserTurn(reqs'[r].request.message),
                                          AssistantTurn(reqs'[r].result.message)>>, 20)
                 /\ \A s \in RealSessions \ {reqs'[r].sessionId} : History(s)' = History(s)
            ELSE \A s \in RealSessions : History(s)' = History(s)

C2_TwoTurnsPerSuccess ==
    \A s \in RealSessions :
        Len(History(s)) =
            Min(20, 2 * Cardinality({r \in ReqIds : Succeeded(r) /\ reqs[r].sessionId = s}))

C2_ExactlyOnceCommit == [][C2_CommitStep]_vars /\ []C2_TwoTurnsPerSuccess

\* two sequential successful calls on a fresh session: 2 turns, then 4
C2_Witness ==
    \E r1, r2 \in ReqIds :
        /\ Succeeded(r1) /\ Succeeded(r2)
        /\ reqs[r1].sessionId = "s1" /\ reqs[r2].sessionId = "s1"
        /\ reqs[r1].loadedLen = 0 /\ reqs[r1].commitLen = 2
        /\ reqs[r2].loadedLen = 2 /\ reqs[r2].commitLen = 4
        /\ Len(History("s1")) = 4

----------------------------------------------------------------------------
(* C3: streamMessage commits exactly when its stream ends without error    *)
(* with non-empty accumulated text, and then appends the request message   *)
(* and the accumulated text; every other step of a streaming request, in   *)
(* particular a backend error before or after fragments, leaves every      *)
(* history as it was.                                                      *)

StreamStep(r) == reqs'[r] # reqs[r] /\ reqs'[r].op = "stream"

CleanEnd(r) == reqs[r].pc = "await_chunk" /\ reqs'[r].pc = "gen_done"

C3_StreamCommitStep ==
    \A r \in ReqIds :
        StreamStep(r) =>
            IF CleanEnd(r) /\ reqs[r].fullResponse # <<>> /\ reqs[r].sessionId # NoSession
            THEN /\ History(reqs[r].sessionId)' =
                        SliceLast(History(reqs[r].sessionId)
                                     \o <<UserTurn(reqs[r].request.message),
                                          AssistantTurn(reqs[r].fullResponse)>>, 20)
                 /\ \A s \in RealSessions \ {reqs[r].sessionId} : History(s)' = History(s)
            ELSE \A s \in RealSessions : History(s)' = History(s)

C3_CommitIffCleanNonEmpty == [][C3_StreamCommitStep]_vars

\* a stream that threw after a fragment had been emitted, and committed nothing
C3_Witness ==
    \E r \in ReqIds :
        /\ reqs[r].op = "stream" /\ reqs[r].pc = "done"
        /\ reqs[r].backendThrew
        /\ reqs[r].fullResponse # <<>>
        /\ reqs[r].sessionId = "s1"
        /\ History("s1") = <<>>

----------------------------------------------------------------------------
(* C4: the events written for a streaming request are one `start`, then    *)
(* `chunk` events only, then exactly one terminal event (`end` or `error`) *)
(* which is the last event and is there exactly when the request is over.  *)

EventTypes(r) == [i \in 1..Len(reqs[r].events) |-> reqs[r].events[i].type]

Terminals(r) == {i \in 1..Len(reqs[r].events) : EventTypes(r)[i] \in {"end", "error"}}

C4_EventOrder ==
    \A r \in ReqIds :
        (reqs[r].op = "stream" /\ reqs[r].http) =>
            /\ Len(reqs[r].events) >= 1
            /\ EventTypes(r)[1] = "start"
            /\ \A i \in 2..Len(reqs[r].events) : EventTypes(r)[i] # "start"
            /\ \A i \in 2..Len(reqs[r].events) :
                   EventTypes(r)[i] = "chunk" \/ i = Len(reqs[r].events)
            /\ IF reqs[r].pc = "done"
               THEN Terminals(r) = {Len(reqs[r].events)}
               ELSE Terminals(r) = {}

\* a finished streaming request whose backend threw after a fragment
C4_Witness ==
    \E r \in ReqIds :
        /\ reqs[r].op = "stream" /\ reqs[r].http /\ reqs[r].pc = "done"
        /\ reqs[r].backendThrew
        /\ Len(reqs[r].events) >= 4

----------------------------------------------------------------------------
(* C5: when the backend throws during a streaming request, the events end  *)
(* with a single `error` event carrying the user-safe message; no `end`    *)
(* event is written and the error text is not written as a `chunk`.        *)

C5_ErrorEventOnThrow ==
    \A r \in ReqIds :
        (reqs[r].op = "stream" /\ reqs[r].http /\ reqs[r].pc = "done"
            /\ reqs[r].backendThrew) =>
            /\ reqs[r].events[Len(reqs[r].events)] = ErrorEvent
            /\ \A i \in 1..Len(reqs[r].events) : reqs[r].events[i].type # "end"
            /\ \A i \in 1..Len(reqs[r].events) :
                   reqs[r].events[i].type = "chunk" =>
                       reqs[r].events[i].content # StreamErrorText

----------------------------------------------------------------------------
(* C6: processMessage always returns a Response, for a missing, empty or   *)
(* whitespace-only message, a missing or unknown personality and any       *)
(* backend failure: no exception escapes, and a failure has confidence 0.5 *)

C6_TotalContract ==
    \A r \in ReqIds :
        DoneProcess(r) =>
            /\ reqs[r].result.kind \in {"success", "error"}
            /\ reqs[r].result.kind = "error" => reqs[r].result.confidence = 500

----------------------------------------------------------------------------
(* C7: when the agent invocation throws, processMessage calls the direct   *)
(* model exactly once, with the message list given to the agent; if that   *)
(* call returns, the Response is a success made from its output and the    *)
(* turn is committed; an error Response means the direct call threw too.   *)

C7_AgentFallback ==
    \A r \in ReqIds :
        (reqs[r].op = "process" /\ reqs[r].method = "fallback") =>
            /\ Len(reqs[r].agentCalls) = 1
            /\ Len(reqs[r].directCalls) = 1
            /\ reqs[r].directCalls[1] = reqs[r].agentCalls[1]
            /\ reqs[r].pc = "done" =>
                   /\ reqs[r].result.kind = "success" <=> reqs[r].directOutput # <<>>
                   /\ reqs[r].result.kind = "success" =>
                          /\ reqs[r].result.message \in
                                 {Trim(reqs[r].directOutput[1].content), TroubleText}
                          /\ reqs[r].result.message # <<>>
                          /\ reqs[r].sessionId # NoSession =>
                                 /\ Len(History(reqs[r].sessionId)) >= reqs[r].commitLen
                                 /\ History(reqs[r].sessionId)[reqs[r].commitLen] =
                                        AssistantTurn(reqs[r].result.message)
                                 /\ History(reqs[r].sessionId)[reqs[r].commitLen - 1] =
                                        UserTurn(reqs[r].request.message)
                   /\ reqs[r].result.kind # "success" => reqs[r].result.kind = "error"

\* a fallback on a session with stored history that ended in a committed success
C7_Witness ==
    \E r \in ReqIds :
        /\ Succeeded(r)
        /\ reqs[r].method = "fallback"
        /\ reqs[r].sessionId = "s1"
        /\ Len(reqs[r].messages) > 2
        /\ reqs[r].result.message = <<"n", "o">>

----------------------------------------------------------------------------
(* C8: two processMessage calls on one session that overlap (each loads    *)
(* the history before the other commits) and both succeed leave both turn  *)
(* pairs in the history, in commit order, unless the cap has evicted them. *)

Overlap(r1, r2) ==
    /\ r1 # r2
    /\ Succeeded(r1) /\ Succeeded(r2)
    /\ reqs[r1].sessionId = reqs[r2].sessionId
    /\ reqs[r1].sessionId # NoSession
    /\ reqs[r1].loadedLen < reqs[r2].commitLen
    /\ reqs[r2].loadedLen < reqs[r1].commitLen

\* the pair committed by r is where the log says, counted from the end
PairKept(r) ==
    LET s   == reqs[r].sessionId
        off == Len(turnLog[s]) - reqs[r].commitLen
    IN  off + 2 <= 20 =>
            /\ Len(History(s)) >= off + 2
            /\ History(s)[Len(History(s)) - off] = AssistantTurn(reqs[r].result.message)
            /\ History(s)[Len(History(s)) - off - 1] = UserTurn(reqs[r].request.message)

C8_NoLostUpdate ==
    \A r1, r2 \in ReqIds :
        Overlap(r1, r2) =>
            /\ reqs[r1].commitLen # reqs[r2].commitLen
            /\ PairKept(r1)
            /\ PairKept(r2)

\* both calls loaded the empty history and both committed
C8_Witness ==
    \E r1, r2 \in ReqIds :
        /\ Overlap(r1, r2)
        /\ reqs[r1].loadedLen = 0 /\ reqs[r2].loadedLen = 0
        /\ reqs[r1].request.message # reqs[r2].request.message
        /\ Len(History(reqs[r1].sessionId)) = 4

----------------------------------------------------------------------------
(* C9: when every candidate of an agent stream extends the one before it,  *)
(* the fragments emitted are exactly the non-empty newly appended          *)
(* suffixes, in order (none for a repeated candidate), and their           *)
(* concatenation is the last candidate.                                    *)

PrefixChain(cands) == \A i \in 2..Len(cands) : IsPrefix(cands[i - 1], cands[i])

\* the x with p \o x = c
AppendedSuffix(p, c) ==
    CHOOSE x \in {SubSeq(c, k, Len(c)) : k \in 1..(Len(c) + 1)} : p \o x = c

RECURSIVE ExpectedFragments(_, _)
ExpectedFragments(prev, cands) ==
    IF cands = <<>> THEN <<>>
    ELSE LET x == AppendedSuffix(prev, Head(cands))
         IN  (IF x = <<>> THEN <<>> ELSE <<x>>) \o ExpectedFragments(Head(cands), Tail(cands))

C9_SuffixOnly ==
    \A r \in ReqIds :
        (reqs[r].method = "agent_stream" /\ PrefixChain(reqs[r].candidates)
            /\ reqs[r].candidates # <<>>) =>
            /\ Fragments(r) = ExpectedFragments(<<>>, reqs[r].candidates)
            /\ Concat(Fragments(r)) = reqs[r].candidates[Len(reqs[r].candidates)]

\* three growing candidates with a repeat: "a", "a", "ab" or "a", "ab", "abb", ...
C9_Witness ==
    \E r \in ReqIds :
        /\ reqs[r].method = "agent_stream"
        /\ Len(reqs[r].candidates) = 3
        /\ PrefixChain(reqs[r].candidates)
        /\ reqs[r].candidates[1] # <<>>
        /\ reqs[r].candidates[2] # reqs[r].candidates[1]
        /\ reqs[r].candidates[3] # reqs[r].candidates[2]
        /\ Len(Fragments(r)) = 3

----------------------------------------------------------------------------
(* C10: when a new candidate differs from the previously seen candidate    *)
(* and does not extend it, the whole new candidate is emitted and becomes  *)
(* the previously seen candidate.                                          *)

C10_RevisionStep ==
    \A r \in ReqIds :
        (/\ reqs[r].method = "agent_stream"
         /\ Len(reqs'[r].candidates) = Len(reqs[r].candidates) + 1) =>
            LET c == reqs'[r].candidates[Len(reqs'[r].candidates)]
                p == reqs[r].lastChunkContent
            IN  (c # <<>> /\ c # p /\ ~IsPrefix(p, c)) =>
                    /\ reqs'[r].pc = "yielded"
                    /\ reqs'[r].pending = c
                    /\ reqs'[r].chunkContent = c

C10_RevisionEmitsFull == [][C10_RevisionStep]_vars

----------------------------------------------------------------------------
(* C11: when a stream with a session id ends cleanly and commits, the       *)
(* assistant turn it appends is the concatenation, in order, of the         *)
(* fragments it emitted, each once; the `chunk` events written for it carry *)
(* exactly those fragments.  Direct path and agent path alike.              *)

ChunkContents(r) ==
    LET idx == {i \in 1..Len(reqs[r].events) : reqs[r].events[i].type = "chunk"}
        f[i \in 0..Len(reqs[r].events)] ==
            IF i = 0 THEN <<>>
            ELSE IF i \in idx THEN Append(f[i - 1], reqs[r].events[i].content)
            ELSE f[i - 1]
    IN  f[Len(reqs[r].events)]

C11_CommitStep ==
    \A r \in ReqIds :
        (StreamStep(r) /\ CleanEnd(r) /\ reqs'[r].commitLen # 0) =>
            LET h == HistoryOf(sessionMemories', reqs[r].sessionId)
            IN  /\ Len(h) >= 2
                /\ h[Len(h)] = AssistantTurn(Concat(reqs[r].yielded))
                /\ h[Len(h) - 1] = UserTurn(reqs[r].request.message)

C11_FragmentsAreResponse ==
    \A r \in ReqIds :
        (reqs[r].op = "stream" /\ reqs[r].pc \in {"gen_done", "done"} /\ ~reqs[r].caught) =>
            /\ Concat(reqs[r].yielded) = reqs[r].fullResponse
            /\ \A i \in 1..Len(reqs[r].yielded) : reqs[r].yielded[i] # <<>>
            /\ reqs[r].http => ChunkContents(r) = reqs[r].yielded

C11_CommittedIsConcatenation == [][C11_CommitStep]_vars /\ []C11_FragmentsAreResponse

\* an agent-path stream over HTTP that emitted two fragments and committed them
C11_Witness ==
    \E r \in ReqIds :
        /\ reqs[r].op = "stream" /\ reqs[r].http /\ reqs[r].pc = "done"
        /\ reqs[r].method = "agent_stream"
        /\ ~reqs[r].caught
        /\ Len(reqs[r].yielded) = 2
        /\ reqs[r].sessionId = "s1"
        /\ reqs[r].commitLen = 4
        /\ Len(History("s1")) = 4
        /\ History("s1")[4] = AssistantTurn(reqs[r].yielded[1] \o reqs[r].yielded[2])

----------------------------------------------------------------------------
(* C12: no step of a processMessage or streamMessage call made with an      *)
(* absent or empty session id changes the store: no session becomes         *)
(* tracked, no history changes, getSessionCount() stays what it was.        *)

ChatStep(r) == reqs'[r] # reqs[r] /\ reqs'[r].op \in {"process", "stream"}

C12_AnonymousStep ==
    \A r \in ReqIds :
        (ChatStep(r) /\ reqs'[r].sessionId = NoSession) =>
            /\ sessionMemories' = sessionMemories
            /\ getSessionCount' = getSessionCount

C12_AnonymousNeverStored == [][C12_AnonymousStep]_vars

\* a stream without session id that ended cleanly with text, on a service
\* holding two sessions
C12_Witness ==
    /\ reqs[1].op = "stream" /\ reqs[1].pc = "done"
    /\ reqs[1].sessionId = NoSession
    /\ ~reqs[1].caught
    /\ reqs[1].fullResponse # <<>>
    /\ reqs[2].pc = "idle"
    /\ getSessionCount = 2
    /\ History("s1") = PriorTurns

----------------------------------------------------------------------------
(* C13: deleteSession of an untracked id answers "not found" (clearSession  *)
(* returned false) and leaves the store as it was; of a tracked id it       *)
(* answers success, after which the id has an empty history and is not      *)
(* counted, and every other session is as before.  clearAllSessions leaves  *)
(* no session.                                                              *)

C13_ClearStep ==
    reqs'[2] # reqs[2] =>
        LET sid     == reqs'[2].sessionId
            tracked == getMemoryKey(sid) \in DOMAIN sessionMemories
        IN  /\ (reqs'[2].op = "deleteSession" /\ ~tracked) =>
                   /\ reqs'[2].result.kind = "http404"
                   /\ sessionMemories' = sessionMemories
            /\ (reqs'[2].op = "deleteSession" /\ tracked) =>
                   /\ reqs'[2].result.kind = "http200"
                   /\ HistoryOf(sessionMemories', sid) = <<>>
                   /\ getMemoryKey(sid) \notin DOMAIN sessionMemories'
                   /\ getSessionCount' = getSessionCount - 1
                   /\ \A k \in DOMAIN sessionMemories \ {getMemoryKey(sid)} :
                          k \in DOMAIN sessionMemories' /\ sessionMemories'[k] = sessionMemories[k]
            /\ reqs'[2].op = "clearAllSessions" => getSessionCount' = 0

C13_ClearSession == [][C13_ClearStep]_vars

\* the tracked "s2" was deleted and "s1" still has its exchange
C13_Witness ==
    /\ reqs[2].op = "deleteSession"
    /\ reqs[2].sessionId = "s2"
    /\ reqs[2].result.kind = "http200"
    /\ getSessionCount = 1
    /\ History("s1") = PriorTurns

----------------------------------------------------------------------------
(* C14: a request whose personality is not a known one ends in a            *)
(* validation error, makes no model or agent call and commits nothing,      *)
(* over HTTP and when processMessage / streamMessage are called directly.   *)

ValidationErrors ==
    {ErrEmptyMessage, ErrPersonalityRequired, ErrMissingFields, ErrMoodRange,
     ErrInvalidPersonality}

NoBackendCall(r) == reqs[r].agentCalls = <<>> /\ reqs[r].directCalls = <<>>

IsValidationError(result) ==
    \/ result.kind = "http400"
    \/ /\ result.kind = "error"
       /\ \E e \in ValidationErrors : result.message = ErrorResponseText(e)

C14_UnknownPersonalityRejected ==
    \A r \in ReqIds :
        (reqs[r].op \in {"process", "stream", "rejected"}
            /\ reqs[r].request.personality \notin PersonalityIds) =>
            /\ NoBackendCall(r)
            /\ reqs[r].commitLen = 0
            /\ reqs[r].pc = "done" => IsValidationError(reqs[r].result)

----------------------------------------------------------------------------
(* C15: streamMessage validates as processMessage does: for an empty or     *)
(* whitespace-only message no model or agent stream is started and nothing  *)
(* is committed.                                                            *)

C15_StreamValidatesMessage ==
    \A r \in ReqIds :
        (reqs[r].op = "stream" /\ validateRequest(reqs[r].request) = ErrEmptyMessage) =>
            /\ NoBackendCall(r)
            /\ reqs[r].commitLen = 0

----------------------------------------------------------------------------
(* C16: processMessage and streamMessage called with a mood below 0 or      *)
(* above 100 make no backend call and commit no turn.                       *)

C16_MoodRangeRejected ==
    \A r \in ReqIds :
        (reqs[r].op \in {"process", "stream"}
            /\ (reqs[r].request.mood < 0 \/ reqs[r].request.mood > 100)) =>
            /\ NoBackendCall(r)
            /\ reqs[r].commitLen = 0

----------------------------------------------------------------------------
(* C17: when the text extracted in processMessage has the malformed         *)
(* tool-call pattern, the recovery's result, not that text, is returned in  *)
(* Response.message and committed as the assistant turn.                    *)

C17_MalformedRecovered ==
    \A r \in ReqIds :
        (Succeeded(r) /\ hasMalformedFunctionCall(reqs[r].finalMessage)) =>
            /\ reqs[r].result.message # reqs[r].finalMessage
            /\ ~hasMalformedFunctionCall(reqs[r].result.message)
            /\ ~isMusicRequest(reqs[r].request.message) =>
                   reqs[r].result.message = MalformedRecoveryText
            /\ \A s \in RealSessions : \A i \in 1..Len(History(s)) :
                   ~hasMalformedFunctionCall(History(s)[i].content)

----------------------------------------------------------------------------
(* C18: a processMessage call that has invoked the agent eventually         *)
(* returns, whatever the agent does: an agent run that does not complete is *)
(* aborted and the call goes on to the direct path.                         *)

C18_AgentCallBounded ==
    \A r \in ProcessIds : (reqs[r].pc = "dispatch_agent") ~> (reqs[r].pc = "done")

----------------------------------------------------------------------------
(* C19: two processMessage calls with the same request whose direct model   *)
(* call threw return the same Response.message, whatever the two backend    *)
(* errors were: the backend's error text is not in the message.             *)

BackendFailed(r) ==
    /\ DoneProcess(r)
    /\ reqs[r].result.kind = "error"
    /\ reqs[r].directCalls # <<>>

C19_ErrorTextNotExposed ==
    \A r1, r2 \in ReqIds :
        (BackendFailed(r1) /\ BackendFailed(r2) /\ reqs[r1].request = reqs[r2].request) =>
            reqs[r1].result.message = reqs[r2].result.message

----------------------------------------------------------------------------
(* C20: with no tool registered processMessage and streamMessage call only  *)
(* the direct model; with tools registered their first backend call is the  *)
(* agent, and the direct model is called only as the fallback.              *)

Dispatched(r) == reqs[r].op \in {"process", "stream"} /\ reqs[r].messages # <<>>

C20_PathSelection ==
    \A r \in ReqIds :
        /\ reqs[r].op \in {"process", "stream"} =>
               /\ tools = 0 => reqs[r].agentCalls = <<>>
               /\ tools > 0 =>
                      (reqs[r].directCalls # <<>> =>
                           /\ reqs[r].op = "process"
                           /\ reqs[r].method = "fallback"
                           /\ Len(reqs[r].agentCalls) = 1)
        /\ Dispatched(r) =>
               /\ tools = 0 => Len(reqs[r].directCalls) = 1
               /\ tools > 0 => Len(reqs[r].agentCalls) = 1

\* a stream served by the direct model alone on a service without tools
C20_Witness ==
    \E r \in ReqIds :
        /\ tools = 0
        /\ reqs[r].op = "stream" /\ reqs[r].pc = "done"
        /\ reqs[r].fullResponse # <<>>
        /\ Len(reqs[r].directCalls) = 1
        /\ reqs[r].agentCalls = <<>>

----------------------------------------------------------------------------
(* C21: extractFinalResponse returns the trimmed text of the last message  *)
(* of the list, scanning backward from its end, whose content is non-empty *)
(* after trimming; when the list is missing or empty, or no message has    *)
(* usable text, it returns the fixed fallback text.  It always returns, and *)
(* what it returns is never empty.                                         *)

\* the messages of a response, none when the property is missing
MessagesOf(response) ==
    IF "messages" \in DOMAIN response THEN response.messages ELSE <<>>

\* the indexes of the messages with usable text
UsableIndexes(messages) ==
    {i \in 1..Len(messages) : \E j \in 1..Len(messages[i].content) :
                                  messages[i].content[j] # " "}

LastIndex(S) == CHOOSE i \in S : \A j \in S : j <= i

----------------------------------------------------------------------------
(* C22: the streaming scan and extractFinalResponse follow one rule: on    *)
(* every message list the text extractFinalResponse returns is the         *)
(* candidate the streaming scan selects, and a tool-call-bearing or        *)
(* non-assistant message is never the one selected (when no assistant      *)
(* message without tool calls has text, the one finds no candidate and the *)
(* other returns its fallback).                                            *)

C22_SameFinalAnswerRule ==
    (reqs[1].op = "scan" /\ reqs[1].extracted /\ reqs[1].scanned) =>
        IF reqs[1].chunkContent # <<>>
        THEN reqs[1].finalMessage = reqs[1].chunkContent
        ELSE reqs[1].finalMessage = TroubleText

----------------------------------------------------------------------------
(* C23: the chain assembled for a request and a stored history of n turns  *)
(* has n + 2 messages: the system message carrying the personality prompt, *)
(* then the stored turns in order, a user turn as a user message and an    *)
(* assistant turn as an assistant message, then the new user message; and  *)
(* processMessage and streamMessage assemble the same chain for the same   *)
(* request and history.                                                    *)

\* the call has assembled its chain and handed it to a backend
Assembled(r) == reqs[r].pc \in {"dispatch_direct", "dispatch_agent", "open_stream"}

\* the chain a call handed to its backend
SentChain(r) == Head(reqs[r].agentCalls \o reqs[r].directCalls)

\* the turns a run of chain messages stands for
TurnsOf(chain) ==
    [i \in 1..Len(chain) |->
        [role |-> IF chain[i].type = "HumanMessage" THEN "user"
                  ELSE IF chain[i].type = "AIMessage" THEN "assistant"
                  ELSE "other",
         content |-> chain[i].content]]

\* the part of a chain between its first and its last message
HistoryPart(chain) == SubSeq(chain, 2, Len(chain) - 1)

C23_ChainShape ==
    \A r \in ReqIds :
        Assembled(r) =>
            LET chain == SentChain(r)
                n     == Len(History(reqs[r].sessionId))
            IN  /\ Len(chain) = n + 2
                /\ chain[1].type = "SystemMessage"
                /\ chain[1].content =
                       getPersonalityPrompt(reqs[r].request.personality,
                                            reqs[r].request.mood)
                /\ TurnsOf(HistoryPart(chain)) = History(reqs[r].sessionId)
                /\ \A i \in 1..(n + 1) : ~chain[i + 1].tool_calls
                /\ chain[n + 2].type = "HumanMessage"
                /\ chain[n + 2].content = reqs[r].request.message

C23_SameChain ==
    \A r1, r2 \in ReqIds :
        ( /\ Assembled(r1) /\ Assembled(r2)
          /\ reqs[r1].request = reqs[r2].request
          /\ reqs[r1].sessionId = reqs[r2].sessionId )
        => SentChain(r1) = SentChain(r2)

C23_ChainAssembly == C23_ChainShape /\ C23_SameChain

\* processMessage and streamMessage have both assembled the chain of one
\* request on a session that holds four turns
C23_Witness ==
    /\ Assembled(1) /\ reqs[1].op = "process"
    /\ Assembled(2) /\ reqs[2].op = "stream"
    /\ reqs[1].request = reqs[2].request
    /\ reqs[1].sessionId = "s1" /\ reqs[2].sessionId = "s1"
    /\ Len(History("s1")) = 4
    /\ Len(SentChain(1)) = 6 /\ Len(SentChain(2)) = 6

----------------------------------------------------------------------------
(* C24: for every integer mood in 0..100 the mood tier getPersonalityPrompt *)
(* selects is low exactly when mood <= 30, medium exactly when             *)
(* 30 < mood <= 70 and high exactly when mood > 70, whatever the           *)
(* personality: the tier depends on the mood value alone.                  *)

\* the tier whose modifier the prompt carries
MoodTier(prompt) == prompt[Len(prompt)]

PromptApplied == reqs[1].op = "prompt" /\ reqs[1].pc = "applied"

C24_MoodBuckets ==
    PromptApplied =>
        LET tier == MoodTier(reqs[1].prompt)
            mood == reqs[1].mood
        IN  /\ tier \in {"low", "medium", "high"}
            /\ tier = "low" <=> mood <= 30
            /\ tier = "medium" <=> (30 < mood /\ mood <= 70)
            /\ tier = "high" <=> mood > 70
            /\ mood \in {0, 30} => tier = "low"
            /\ mood \in {31, 70} => tier = "medium"
            /\ mood \in {71, 100} => tier = "high"

\* the prompt of a personality at the upper boundary of the medium tier
C24_Witness ==
    /\ PromptApplied
    /\ reqs[1].personality = "eli"
    /\ reqs[1].mood = 70
    /\ MoodTier(reqs[1].prompt) = "medium"

----------------------------------------------------------------------------
(* C25: requests for different session ids never contend: a step of a      *)
(* request for session A (its load, its commit with or without eviction at *)
(* the cap, its error) leaves the stored history of every other session,   *)
(* and whether that session is tracked, as it was, under every             *)
(* interleaving of two concurrent requests.                                *)

Tracked(mem, sessionId) == getMemoryKey(sessionId) \in DOMAIN mem

C25_RequestStep ==
    \A r \in ReqIds :
        reqs'[r] # reqs[r] =>
            \A b \in RealSessions \ {reqs'[r].sessionId} :
                /\ HistoryOf(sessionMemories', b) = History(b)
                /\ Tracked(sessionMemories', b) <=> Tracked(sessionMemories, b)

C25_NoContention == [][C25_RequestStep]_vars

\* a request on "s1" has committed at the cap, evicting the oldest exchange,
\* while a request on "s2" is in flight between its load and its commit
C25_Witness ==
    \E r1, r2 \in ReqIds :
        /\ reqs[r1].sessionId = "s1" /\ reqs[r1].pc \in {"done", "gen_done"}
        /\ Len(History("s1")) = 20
        /\ History("s1")[1] = Exchange(2)[1]
        /\ History("s1")[20].content = Ok
        /\ reqs[r2].sessionId = "s2"
        /\ reqs[r2].pc \in {"extracted", "await_chunk", "yielded"}
        /\ History("s2") = StoredHistory(1)

----------------------------------------------------------------------------
(* C26: no automatic expiry: a tracked session stays tracked, and its      *)
(* history stays as it is, through every step other than clearSession for  *)
(* its id and clearAllSessions, except that a commit on the session itself *)
(* appends a pair and keeps the newest 20 turns.  Requests on other        *)
(* sessions, failed requests, statistics queries and the generation of a   *)
(* session id never remove or shorten it.                                  *)

\* the step is clearSession(sessionId), or clearAllSessions
ClearingStep(sessionId) ==
    /\ reqs[2].pc = "idle"
    /\ \/ reqs'[2].op = "deleteSession" /\ reqs'[2].sessionId = sessionId
       \/ reqs'[2].op = "clearAllSessions"

\* the step is the commit of a request on the session
OwnAppend(sessionId) ==
    \E r \in ReqIds :
        /\ reqs'[r] # reqs[r]
        /\ reqs'[r].sessionId = sessionId
        /\ \E t \in {reqs'[r].result.message, reqs[r].fullResponse} :
               HistoryOf(sessionMemories', sessionId) =
                   SliceLast(History(sessionId)
                                \o <<UserTurn(reqs[r].request.message),
                                     AssistantTurn(t)>>, 20)

C26_Step ==
    \A s \in RealSessions :
        (Tracked(sessionMemories, s) /\ ~ClearingStep(s)) =>
            /\ Tracked(sessionMemories', s)
            /\ \/ HistoryOf(sessionMemories', s) = History(s)
               \/ OwnAppend(s)

C26_NoExpiry == [][C26_Step]_vars

\* "s1", at the cap, has outlived a failed request on it and a statistics
\* query, with all of its twenty turns
C26_Witness ==
    /\ reqs[1].sessionId = "s1"
    /\ reqs[1].pc = "done" /\ reqs[1].result.kind = "error"
    /\ reqs[2].op = "getStats"
    /\ History("s1") = StoredHistory(10)
    /\ Len(History("s1")) = 20

----------------------------------------------------------------------------
(* C27: request.conversationHistory is used only in ephemeral mode: with a *)
(* session id the history part of the assembled chain is the stored        *)
(* history, whatever the caller supplied; without a session id the history *)
(* part is the history the caller supplied.                                *)

C27_CallerHistoryInEphemeralMode ==
    \A r \in ReqIds :
        Assembled(r) =>
            IF reqs[r].sessionId # NoSession
            THEN TurnsOf(HistoryPart(SentChain(r))) = History(reqs[r].sessionId)
            ELSE TurnsOf(HistoryPart(SentChain(r))) = reqs[r].request.conversationHistory

----------------------------------------------------------------------------
(* C28: a success Response of processMessage carries the personality of    *)
(* the request, a non-empty message and a confidence within [0.85, 1.0];   *)
(* an error Response carries the personality of the request and the        *)
(* confidence 0.5 (confidences in thousandths).                            *)

C28_ResponseShape ==
    \A r \in ReqIds :
        DoneProcess(r) =>
            /\ reqs[r].result.kind = "success" =>
                   /\ reqs[r].result.personality = reqs[r].request.personality
                   /\ reqs[r].result.message # <<>>
                   /\ Trim(reqs[r].result.message) # <<>>
                   /\ 850 <= reqs[r].result.confidence
                   /\ reqs[r].result.confidence <= 1000
            /\ reqs[r].result.kind = "error" =>
                   /\ reqs[r].result.personality = reqs[r].request.personality
                   /\ reqs[r].result.confidence = 500

\* a success at the largest random draw, after the agent answered with text
C28_Witness ==
    /\ Succeeded(1)
    /\ reqs[1].method = "agent_invoke"
    /\ reqs[1].request.personality = "default"
    /\ reqs[1].result.personality = "default"
    /\ reqs[1].result.message = Ok
    /\ reqs[1].result.confidence = 999

----------------------------------------------------------------------------
(* C30: read isolation: the chain assembled for a request on session A is  *)
(* a function of the request and of A's stored history alone: from any     *)
(* other store that agrees on A's history, however it differs on the other *)
(* sessions, the call assembles the same chain.                            *)

\* the chain the call of request r would assemble from the store mem
ChainFrom(mem, r) ==
    IF reqs'[r].op = "process"
    THEN buildMessageChain(reqs'[r].request, LoadedHistory(mem, reqs'[r].sessionId))
    ELSE StreamMessageChain(reqs'[r].request, LoadedHistory(mem, reqs'[r].sessionId))

C30_AssemblyStep ==
    \A r \in ReqIds :
        (reqs[r].pc = "idle" /\ Assembled(r)') =>
            \A mem \in AssemblyStores :
                HistoryOf(mem, reqs'[r].sessionId) = History(reqs'[r].sessionId)
                    => reqs'[r].messages = ChainFrom(mem, r)

C30_ReadIsolation == [][C30_AssemblyStep]_vars

\* a call on "s1", which holds one exchange, has assembled its chain on a
\* service whose "s2" holds two others
C30_Witness ==
    /\ Assembled(1)
    /\ reqs[1].sessionId = "s1"
    /\ History("s1") = StoredHistory(1)
    /\ History("s2") = StoredHistory(2)
    /\ Len(reqs[1].messages) = 4

----------------------------------------------------------------------------
(* C29: the _call of spotify_control, web_search and web_open returns a    *)
(* string and never throws, however its external calls settle: a missing   *)
(* or expired credential, a non-OK status (401, 403, 404, 429), a timeout  *)
(* and an exception of a helper each end in a non-empty string; and a call *)
(* entered with a missing or expired credential makes no external call.    *)

ToolCallDone == reqs[1].op = "tool" /\ reqs[1].pc = "done"

C29_ToolContract ==
    reqs[1].op = "tool" =>
        /\ reqs[1].result.kind # "exception"
        /\ reqs[1].pc = "done" =>
               /\ reqs[1].result.kind = "string"
               /\ reqs[1].result.text # <<>>
        /\ reqs[1].credentialsAtCall \in {"missing", "expired"} =>
               reqs[1].fetches = <<>>

\* a Spotify search whose fetch answered 401: the error searchMusic rethrows
\* has become the reconnect message
C29_Witness ==
    /\ ToolCallDone
    /\ reqs[1].tool = "spotify_control"
    /\ reqs[1].action = <<"search">>
    /\ reqs[1].fetches = <<"search">>
    /\ reqs[1].result.kind = "string"
    /\ reqs[1].result.text =
           <<"Spotify authentication expired. Please reconnect: http://localhost:8000/api/spotify/login">>

----------------------------------------------------------------------------
(* C31: pair invariant: in every reachable state every stored session      *)
(* history has even length and its roles alternate user, assistant, user,  *)
(* assistant, ..., starting with a user turn; eviction at the cap and the  *)
(* interleaving of overlapping requests on one session preserve it.        *)

RoleAt(i) == IF i % 2 = 1 THEN "user" ELSE "assistant"

Paired(history) ==
    /\ Len(history) % 2 = 0
    /\ \A i \in 1..Len(history) : history[i].role = RoleAt(i)

C31_PairInvariant ==
    \A k \in DOMAIN sessionMemories : Paired(sessionMemories[k])

\* two requests on "s1" that both loaded the history at the cap before either
\* committed have both committed, each evicting the oldest exchange
C31_Witness ==
    /\ reqs[1].sessionId = "s1" /\ reqs[2].sessionId = "s1"
    /\ reqs[1].loadedLen = 20 /\ reqs[2].loadedLen = 20
    /\ reqs[1].commitLen > 20 /\ reqs[2].commitLen > 20
    /\ Len(History("s1")) = 20
    /\ History("s1")[1] = Exchange(3)[1]
    /\ History("s1")[19].content = Hi /\ History("s1")[17].content = Hi

----------------------------------------------------------------------------
(* C32: the set of tracked sessions changes only through a successful      *)
(* commit, clearSession or clearAllSessions: loading the history of a      *)
(* session id without committed turns does not make it tracked, so a       *)
(* request that fails or yields empty output leaves getSessionCount()      *)
(* unchanged, and every tracked session has at least one turn.             *)

\* the step is the commit of a request on the session, which stores its pair
CommitStep(sessionId) ==
    \E r \in ReqIds :
        /\ reqs'[r] # reqs[r]
        /\ reqs[r].pc \in {"extracted", "await_chunk"}
        /\ reqs'[r].sessionId = sessionId
        /\ nSaves' = nSaves + 1

\* the step is the history load of a request that carries the session id
LoadStep(sessionId) ==
    \E r \in ReqIds :
        /\ reqs[r].pc = "idle"
        /\ reqs'[r].op \in {"process", "stream"}
        /\ reqs'[r].sessionId = sessionId

TrackedSet(mem) == {s \in SessionIds : Tracked(mem, s)}

C32_OriginalStep ==
    /\ \A s \in RealSessions :
           (Tracked(sessionMemories', s) <=> Tracked(sessionMemories, s))
               \/ CommitStep(s) \/ ClearingStep(s)
    /\ \A s \in RealSessions :
           Tracked(sessionMemories', s) => Len(HistoryOf(sessionMemories', s)) >= 1
    /\ \A r \in ReqIds :
           (reqs[r].pc # "done" /\ reqs'[r].pc = "done" /\ nSaves' = nSaves
                /\ reqs'[2] = reqs[2]) =>
               Cardinality(DOMAIN sessionMemories') = getSessionCount

C32_AmendedStep ==
    /\ \A s \in RealSessions :
           /\ (Tracked(sessionMemories, s) /\ ~Tracked(sessionMemories', s)) =>
                  ClearingStep(s)
           /\ (~Tracked(sessionMemories, s) /\ Tracked(sessionMemories', s)) =>
                  \/ LoadStep(s) /\ HistoryOf(sessionMemories', s) = <<>>
                  \/ CommitStep(s) /\ Len(HistoryOf(sessionMemories', s)) = 2
           /\ LoadStep(s) => Tracked(sessionMemories', s)
    /\ DOMAIN sessionMemories' \subseteq {getMemoryKey(s) : s \in RealSessions}
    /\ \A r \in ReqIds :
           (reqs'[r] # reqs[r] /\ nSaves' = nSaves /\ reqs[r].pc # "idle"
                /\ reqs'[2] = reqs[2]) =>
               sessionMemories' = sessionMemories

----------------------------------------------------------------------------
(* C33: clear versus in-flight request: once clearSession(S) has removed   *)
(* session S, S stays untracked with empty history until a request for S   *)
(* that starts after the clear commits a turn; a request for S that was    *)
(* already suspended at the backend call when the clear happened does not  *)
(* re-create S or add turns to it when it completes.  The formula is the   *)
(* second half: with the one chat request suspended at its backend call    *)
(* when S was removed, S is untracked and empty from then on.              *)

BackendCallPcs ==
    {"dispatch_agent", "dispatch_fallback", "dispatch_direct", "open_stream", "await_chunk"}

\* clearSession(sessionId) has removed the session under the suspended request 1
ClearedInFlight(sessionId) ==
    /\ reqs[2].pc = "done" /\ reqs[2].op = "deleteSession"
    /\ reqs[2].sessionId = sessionId
    /\ reqs[2].result.kind = "http200"
    /\ reqs[2].clearedUnder \in BackendCallPcs

C33_InFlightDoesNotRecreate ==
    \A s \in RealSessions :
        ClearedInFlight(s) => ~Tracked(sessionMemories, s) /\ History(s) = <<>>

----------------------------------------------------------------------------
(* C34: ordering of commit and terminal event in streaming: for a cleanly  *)
(* completed stream with a session id and non-empty output, the turn is    *)
(* committed to memory after the last `chunk` event and before the `end`   *)
(* event is written, so a client that has received `end` observes the turn *)
(* in the session history.                                                 *)

\* a stream served over HTTP that has a session id and accumulated text and
\* has not entered its catch block
CleanSessionStream(r) ==
    /\ reqs[r].op = "stream" /\ reqs[r].http
    /\ ~reqs[r].caught
    /\ reqs[r].sessionId # NoSession
    /\ reqs[r].fullResponse # <<>>

\* the step writes the `end` event of r
WritesEnd(r) ==
    /\ Len(reqs'[r].events) = Len(reqs[r].events) + 1
    /\ reqs'[r].events[Len(reqs'[r].events)].type = "end"

TurnAt(history, i, r) ==
    /\ 2 <= i /\ i <= Len(history)
    /\ history[i - 1] = UserTurn(reqs[r].request.message)
    /\ history[i] = AssistantTurn(reqs[r].fullResponse)

C34_Step ==
    \A r \in ReqIds :
        /\ (CleanSessionStream(r) /\ StreamStep(r) /\ CleanEnd(r)) =>
               \* the commit: every fragment has been written, `end` has not
               /\ Terminals(r) = {}
               /\ ChunkContents(r) = reqs[r].yielded
               /\ Concat(reqs[r].yielded) = reqs[r].fullResponse
               /\ reqs[r].commitLen = 0 /\ reqs'[r].commitLen > 0
               /\ reqs'[r].events = reqs[r].events
               /\ TurnAt(HistoryOf(sessionMemories', reqs[r].sessionId),
                         reqs'[r].commitLen, r)
        /\ (CleanSessionStream(r) /\ WritesEnd(r)) =>
               \* the `end` event: the commit has happened, no chunk came after it
               /\ reqs[r].commitLen > 0
               /\ SubSeq(reqs'[r].events, 1, Len(reqs[r].events)) = reqs[r].events
               /\ ChunkContents(r) = reqs[r].yielded
               /\ TurnAt(HistoryOf(sessionMemories', reqs[r].sessionId),
                         reqs[r].commitLen, r)

C34_CommitBeforeEnd == [][C34_Step]_vars

\* a direct-path stream on "s1" has written a chunk and then `end`, and the
\* turn is in the history of "s1"
C34_Witness ==
    \E r \in ReqIds :
        /\ CleanSessionStream(r) /\ reqs[r].pc = "done"
        /\ reqs[r].sessionId = "s1"
        /\ EventTypes(r) = <<"start", "chunk", "end">>
        /\ History("s1") = <<UserTurn(Hi), AssistantTurn(reqs[r].events[2].content)>>

----------------------------------------------------------------------------
(* C35: monotonic streaming cursor: throughout agent-path streaming the    *)
(* previously-seen candidate changes only at a step that emits a fragment, *)
(* its length never decreases, and at every point the total length of all  *)
(* fragments emitted so far equals the length of the previously-seen       *)
(* candidate.                                                              *)

AgentStreaming(r) ==
    reqs[r].op = "stream" /\ reqs[r].method = "agent_stream" /\ ~reqs[r].caught

EmittedLength(r) == Len(Concat(Fragments(r)))

C35_OriginalStep ==
    \A r \in ReqIds :
        (AgentStreaming(r) /\ reqs'[r] # reqs[r]) =>
            /\ reqs'[r].lastChunkContent # reqs[r].lastChunkContent =>
                   Len(Fragments(r)') > Len(Fragments(r))
            /\ Len(reqs'[r].lastChunkContent) >= Len(reqs[r].lastChunkContent)

C35_OriginalInvariant ==
    \A r \in ReqIds :
        AgentStreaming(r) => EmittedLength(r) = Len(reqs[r].lastChunkContent)

C35_MonotonicCursor == [][C35_OriginalStep]_vars /\ []C35_OriginalInvariant

(* C35, amended: throughout agent-path streaming the previously-seen       *)
(* candidate changes only when the generator resumes from the yield that   *)
(* emitted a fragment (it becomes the candidate whose suffix was emitted), *)
(* its length grows at each change by the length of that fragment, and     *)
(* whenever the generator is not suspended at a yield the total length of  *)
(* the fragments emitted so far equals the length of the previously-seen   *)
(* candidate; while it is suspended at the yield of a fragment the total   *)
(* exceeds that length by the length of that fragment.                     *)

C35_AmendedStep ==
    \A r \in ReqIds :
        (AgentStreaming(r) /\ reqs'[r].lastChunkContent # reqs[r].lastChunkContent) =>
            /\ reqs[r].pc = "yielded" /\ reqs'[r].pc = "await_chunk"
            /\ reqs[r].pending # <<>>
            /\ reqs'[r].lastChunkContent = reqs[r].chunkContent
            /\ Len(reqs'[r].lastChunkContent) =
                   Len(reqs[r].lastChunkContent) + Len(reqs[r].pending)

C35_AmendedInvariant ==
    \A r \in ReqIds :
        AgentStreaming(r) =>
            IF reqs[r].pc = "yielded"
            THEN EmittedLength(r) = Len(reqs[r].lastChunkContent) + Len(reqs[r].pending)
            ELSE EmittedLength(r) = Len(reqs[r].lastChunkContent)

C35_CursorAfterYield == [][C35_AmendedStep]_vars /\ []C35_AmendedInvariant

\* after the candidates "a", "ab" and a revision "ba", which emits nothing:
\* the cursor is "ab" and the fragments "a" and "b" have been emitted
C35_Witness ==
    /\ AgentStreaming(1)
    /\ reqs[1].pc = "await_chunk"
    /\ reqs[1].candidates = << <<"a">>, <<"a", "b">>, <<"b", "a">> >>
    /\ reqs[1].lastChunkContent = <<"a", "b">>
    /\ reqs[1].yielded = << <<"a">>, <<"b">> >>

----------------------------------------------------------------------------
(* C36: malformed tool-call recovery is total and bounded:                 *)
(* handleMalformedFunctionCall always returns a string and never throws;   *)
(* it invokes a tool at most once, and only when the original user text is *)
(* classified as a music request and a non-empty target was extracted      *)
(* (patterns tried on the malformed response first, the original user text *)
(* last); if the request is not a music request, extraction fails, the     *)
(* spotify_control tool is not registered, or the tool invocation throws,  *)
(* it returns a fixed apologetic message instead.                          *)

\* the target: the trimmed group of the first pattern that matches, the two
\* patterns on the malformed response before the one on the user text
TargetOf(call) ==
    LET onResponse == IF PlayMatch(call.response, GroupStops) # <<>>
                      THEN PlayMatch(call.response, GroupStops)
                      ELSE QuotedMatch(call.response)
        found      == IF onResponse # <<>> THEN onResponse
                      ELSE PlayMatch(call.request.message, {})
    IN  IF found = <<>> THEN <<>> ELSE Trim(found[1])

ApologyTexts(call) ==
    { MalformedRecoveryText, MusicRecoveryText, MusicSystemText(TargetOf(call)) }

C36_RecoveryTotalAndBounded ==
    LET call  == reqs[1]
        music == isMusicRequest(call.request.message)
    IN  call.op = "recover" =>
            /\ Len(call.invocations) <= 1
            /\ call.invocations # <<>> =>
                   /\ music
                   /\ TargetOf(call) # <<>>
                   /\ FindTool("spotify_control")
                   /\ call.invocations[1] = <<"play:">> \o TargetOf(call)
            /\ call.pc \in {"ready", "tool_invoke", "done"}
            /\ call.pc = "done" =>
                   /\ call.result.kind = "returned"
                   /\ ~music => call.result.text = MalformedRecoveryText
                   /\ (music /\ TargetOf(call) = <<>>) =>
                          call.result.text = MusicRecoveryText
                   /\ (music /\ TargetOf(call) # <<>>
                             /\ (~FindTool("spotify_control") \/ call.toolThrew)) =>
                          call.result.text = MusicSystemText(TargetOf(call))
                   /\ (call.invocations = <<>> \/ call.toolThrew) =>
                          call.result.text \in ApologyTexts(call)
                   /\ (call.invocations # <<>> /\ ~call.toolThrew) =>
                          call.result.text \in RecoveryToolTexts

\* the response holds no title (`play "`), the user text does ("PLAY y z "):
\* the tool was invoked once with play:y z, threw, and the apology was returned
C36_Witness ==
    /\ reqs[1].op = "recover" /\ reqs[1].pc = "done"
    /\ reqs[1].response = Play \o <<" ", Quote>>
    /\ reqs[1].request.message = <<"P", "L", "A", "Y", " ", "y", " ", "z", " ">>
    /\ reqs[1].invocations = << <<"play:", "y", " ", "z">> >>
    /\ reqs[1].toolThrew
    /\ reqs[1].result.text = MusicSystemText(<<"y", " ", "z">>)

----------------------------------------------------------------------------
(* C37: every delayed action is executed at most once: for every action id
   the callback is invoked at most one time, whatever the interleaving of
   the poll ticks, the initial run of start() and triggerManualProcess() *)
C37_AtMostOnce ==
    \A a \in ActionIds : reqs[1].callbackCalls[a] <= 1

----------------------------------------------------------------------------
(* C38: executeAction marks an action completed if and only if it was due
   (executeAt <= now).  An action that is not yet due is skipped: the call
   returns without invoking the callback, without calling completeAction and
   with the queue as it was.  A due action is marked completed after the
   attempt: completeAction is called once the callback has resolved, once it
   has rejected, or at once when no callback is set, and executeAction
   returns when completeAction has settled *)
CompletingPcs == {"await_complete", "await_complete_catch"}

\* the run has called completeAction(action.id) and awaits it
MarksCompleted(P) ==
    /\ Len(P.runs) = 1
    /\ P.runs[1].pc \in CompletingPcs

SameQueue(P, Q) ==
    /\ Q.keys = P.keys
    /\ Q.queue = P.queue

C38_Step ==
    LET P == reqs[1]
        Q == reqs'[1]
    IN  (Len(P.runs) = 1 /\ Q.runs # P.runs) =>
          LET run    == P.runs[1]
              action == run.pending[run.i]
          IN  /\ run.pc = "execute" =>
                   IF action.executeAt > P.now
                   THEN /\ Q.runs = <<>>
                        /\ Q.callbackCalls = P.callbackCalls
                        /\ SameQueue(P, Q)
                   ELSE IF P.callback
                   THEN /\ Len(Q.runs) = 1
                        /\ Q.runs[1].pc = "await_callback"
                        /\ Q.callbackCalls =
                             [P.callbackCalls EXCEPT ![action.id] = @ + 1]
                        /\ SameQueue(P, Q)
                   ELSE /\ MarksCompleted(Q)
                        /\ Q.callbackCalls = P.callbackCalls
                        /\ SameQueue(P, Q)
              /\ run.pc = "await_callback" =>
                   /\ MarksCompleted(Q)
                   /\ Q.callbackCalls = P.callbackCalls
                   /\ SameQueue(P, Q)
              /\ run.pc \in CompletingPcs =>
                   /\ Q.runs = <<>>
                   /\ Q.callbackCalls = P.callbackCalls
                   /\ Q.keys \in {P.keys, P.keys \ {action.id}}
                   /\ Q.queue \in {P.queue, P.queue \ {action.id}}

C38_CompletedIffDue == [][C38_Step]_vars

\* the callback of a due action has rejected and completeAction is awaited
C38_Witness ==
    /\ reqs[1].op = "processor"
    /\ reqs[1].callback
    /\ Len(reqs[1].runs) = 1
    /\ reqs[1].runs[1].origin = "direct"
    /\ reqs[1].runs[1].pc = "await_complete_catch"
    /\ reqs[1].runs[1].pending[1].id = "a2"
    /\ reqs[1].now = POLL_INTERVAL
    /\ reqs[1].callbackCalls["a2"] = 1
    /\ "a2" \in reqs[1].queue

----------------------------------------------------------------------------
(* C39: timer discipline of the processor: after any sequence of start() and
   stop() calls at most one poll timer and at most one cleanup timer are
   active, and while isRunning is false (before the first start() and after
   stop() has returned) none of the timers of the processor is scheduled *)
ActiveTimers(kind) == {t \in reqs[1].timers : t.kind = kind}

C39_TimerDiscipline ==
    /\ Cardinality(ActiveTimers("poll")) <= 1
    /\ Cardinality(ActiveTimers("cleanup")) <= 1
    /\ ~reqs[1].isRunning => reqs[1].timers = {}

====
